---- MODULE Spec2Model ----
(***************************************************************************)
(* State-machine model of the autofix CI agent: the ReAct runner           *)
(* (src/src/react_runner.py), the agent it drives (src/src/ci_agent.py),   *)
(* the tool registry (src/src/tools/__init__.py) and the orchestrator      *)
(* (src/src/orchestrator.py).                                              *)
(*                                                                         *)
(* A workspace is abstracted to what the CI pipeline would say about it:   *)
(* "absent" (no directory), "healthy" (every check passes) or "broken".    *)
(* Texts (observations, errors, log lines) are abstracted to the literal   *)
(* prefix the code builds them from.                                       *)
(***************************************************************************)
EXTENDS Integers, Sequences, FiniteSets, TLC

VARIABLES
    mode,               \* who called run_react_loop: "orchestrator" or "direct"
    pc,                 \* position of the single thread of control
    agentKind,          \* which agent object the runner drives
    workspace,          \* "absent" | "healthy" | "broken"
    max_turns,          \* run_react_loop's max_turns argument
    turn,               \* number of loop iterations started (turn + 1 of the code)
    consecutive_errors, \* react_runner.py:54
    observation_data,   \* react_runner.py:37 / :128
    reasoning,          \* react_runner.py:63
    action_result,      \* react_runner.py:93
    result,             \* value returned by run_react_loop ("none" while running)
    exit,               \* the return statement that ended run_react_loop
    log,                \* last line printed by run_react_loop
    agent_result,       \* orchestrator.py:25
    ci_result,          \* orchestrator.py:29
    verdict,            \* value returned by orchestrate_ci_fix
    \* history variables (observers only, no action reads them in a guard)
    last,               \* outcome of the most recent sub-step of the agent
    nReason,            \* invocations of agent.reason in this run
    nAct,               \* invocations of agent.act in the current turn
    nObserve,           \* invocations of agent.observe in the current turn
    agentFaults,        \* sub-steps of the agent that raised, returned None or signalled
                        \* an error in this run: 0, 1, or 2 for two or more
    pipelinePassed,     \* some run_ci_pipeline invocation of this run returned status pass
    recheckRan,         \* check_ci_status has been executed
    raised              \* stage of orchestrate_ci_fix in which an exception was raised

\* the tools on the files of a working directory
VARIABLES
    workspace_files,    \* the files of the working directory: path -> text
    tool_name,          \* action_name of the last execute_action call
    tool_params,        \* params of the last execute_action call
    tool_outcome,       \* what the last execute_action call did: return or raise
    nCalls              \* execute_action calls made

\* the scripted reasoning engine of an end-to-end run
VARIABLES
    llm_script          \* what the engine proposes: the line it names, and whether it
                        \* asks for run_ci_pipeline after each fix

\* the working directory of the process and the runs the host has started
VARIABLES
    cwd,                \* os.getcwd(): one per process, shared by its threads
    thread_pc,          \* position of each run in run_react_loop / check_ci_status
    original_cwd,       \* per run, the original_cwd local of each of the three functions
    agent_ws,           \* per run, agent.workspace_path (react_runner.py:20)
    check_ws,           \* per run, the resolved workspace_path of check_ci_status
    tool_calls,         \* per run, execute_tool_in_workspace calls completed
    \* history variables
    entry_cwd,          \* per run and function, the directory current when it was called
    tool_exit,          \* per run, how the last execute_tool_in_workspace call ended
    ran_in              \* per run, the directory its last tool executed in

\* the model-response cache of the host process (src/src/llm.py)
VARIABLES
    cache_files,        \* the entries of the .pytest_cache/cache_*.json files on disk
    scenario_pc,        \* position of the host: at the prompt, or in a scenario run
    scenario,           \* the seed of the scenario run in progress
    llm_outcome,        \* where the last call_openai_chat took its return value from
    \* history variables
    api_calls,          \* per request fingerprint, the model calls issued in this process
    completed           \* the fingerprints whose model call has completed successfully

\* a tool that waits for an external process (subprocess.run)
VARIABLES
    proc_tool,          \* the tool that started the process
    proc_script,        \* ci_script.exists() when the tool was called
    proc_pc,            \* "idle", or "waiting" inside subprocess.run
    proc_status,        \* the process: "running", "exited 0", "exited 1", "killed"
    proc_elapsed,       \* seconds subprocess.run has waited
    proc_result,        \* what the last tool call returned
    proc_calls          \* tool calls made

\* observe called on an Action Record of its own
VARIABLES
    obs_record,         \* the Action Record passed to observe
    obs_result,         \* the Observation observe returned
    obs_calls           \* observe calls made

\* the text handed to the reasoning engine (history variables)
VARIABLES
    reason_arg,         \* the argument of the last agent.reason call
    observed_text       \* the text of the last Observation an observe call returned,
                        \* the initial check's before the first

runVars == <<mode, pc, agentKind, workspace, max_turns, turn, consecutive_errors,
             observation_data, reasoning, action_result, result, exit, log,
             agent_result, ci_result, verdict,
             last, nReason, nAct, nObserve, agentFaults, pipelinePassed, recheckRan,
             raised>>

toolVars == <<workspace_files, tool_name, tool_params, tool_outcome, nCalls>>

\* the variables run_react_loop and orchestrate_ci_fix leave alone in Spec
seedVars == <<llm_script>>

cwdVars == <<cwd, thread_pc, original_cwd, agent_ws, check_ws, tool_calls,
             entry_cwd, tool_exit, ran_in>>

cacheVars == <<cache_files, scenario_pc, scenario, llm_outcome, api_calls, completed>>

\* the variables of the specifications that follow the first four
procVars == <<proc_tool, proc_script, proc_pc, proc_status, proc_elapsed, proc_result,
              proc_calls>>

obsVars == <<obs_record, obs_result, obs_calls>>

flowVars == <<reason_arg, observed_text>>

moreVars == <<cacheVars, procVars, obsVars, flowVars>>

\* what the steps of run_react_loop leave alone besides the history of its texts
loopFrame == <<toolVars, seedVars, cwdVars, cacheVars, procVars, obsVars>>

auxVars == <<toolVars, seedVars, cwdVars, moreVars>>

vars == <<runVars, auxVars>>

(***************************************************************************)
(* Bounds                                                                  *)
(***************************************************************************)
\* largest max_turns a direct caller of run_react_loop passes
MaxTurns == 4

(***************************************************************************)
(* Program constants                                                       *)
(***************************************************************************)
max_consecutive_errors == 3

\* max_turns=20 passed by run_ci_agent
orchestrator_max_turns == 20

known_actions ==
    {"run_ci_pipeline", "analyze_file", "analyze_test_failure", "validate_config",
     "fix_syntax_error", "add_import", "remove_unused_import", "fix_test_assertion",
     "add_dependency", "fix_yaml_syntax"}

\* tool names a model response may carry: the registered ones, an
\* unregistered one and the empty name
ProposedTools == known_actions \cup {"not_a_real_tool", ""}

AgentKinds == {"ReActAgent", "Stub", "ErrorStub"}

(***************************************************************************)
(* Values                                                                  *)
(***************************************************************************)
NoResult == [action |-> "", status |-> "", data |-> "", error |-> ""]

NoDecision == [error |-> "", tool_call |-> "", tool |-> ""]

NoRecord == [none |-> TRUE, status |-> "", action |-> "", error |-> "", result |-> NoResult]

NoneObservation ==
    [none |-> TRUE, observation |-> "", ci_status |-> "", next_action_needed |-> TRUE]

NoVerdict == [status |-> "", result |-> "", final_ci_status |-> "", error |-> ""]

ToolResult(action, status, data, error) ==
    [action |-> action, status |-> status, data |-> data, error |-> error]

Decision(tool_call, tool) == [error |-> "", tool_call |-> tool_call, tool |-> tool]

ErrorDecision(text) == [error |-> text, tool_call |-> "", tool |-> ""]

ActionRecord(status, action, error, res) ==
    [none |-> FALSE, status |-> status, action |-> action, error |-> error, result |-> res]

Observation(text, ci_status, next_action_needed) ==
    [none |-> FALSE, observation |-> text, ci_status |-> ci_status,
     next_action_needed |-> next_action_needed]

\* what a call of a method of the agent can do: return a value, return None or raise
Return(v) == [kind |-> "return", value |-> v]

(***************************************************************************)
(* Tool registry: src/src/tools                                            *)
(* Every operator gives the set of (result, workspace after) pairs the     *)
(* tool can produce on a workspace.                                        *)
(***************************************************************************)
Outcome(res, ws) == [result |-> res, ws |-> ws]

\* the subprocess exits 0 exactly on a healthy workspace; it can also time out
run_ci_pipeline(ws) ==
    (IF ws = "healthy"
     THEN {Outcome(ToolResult("run_ci_pipeline", "pass", "", ""), ws)}
     ELSE {Outcome(ToolResult("run_ci_pipeline", "fail", "", "CI pipeline failed"), ws)})
    \cup {Outcome(ToolResult("run_ci_pipeline", "fail", "", "CI pipeline timed out"), ws)}

\* tools that read the workspace and report what they read
Inspector(name, data, ws) ==
    {Outcome(ToolResult(name, "pass", data, ""), ws),
     Outcome(ToolResult(name, "fail", "", "Error"), ws)}

\* tools that rewrite a file of the workspace: the edit can repair the
\* workspace or break it; a failing call raised before the file was written
Fixer(name, ws) ==
    {Outcome(ToolResult(name, "pass", "", ""), w) : w \in {"healthy", "broken"}}
    \cup {Outcome(ToolResult(name, "fail", "", "Error"), ws)}

UnknownAction(ws) ==
    {Outcome(ToolResult("unknown_action", "fail", "", "Unknown action"), ws)}

execute_action(action_name, ws) ==
    CASE action_name = "run_ci_pipeline" -> run_ci_pipeline(ws)
      [] action_name = "analyze_file" -> Inspector(action_name, "content", ws)
      [] action_name = "analyze_test_failure" -> Inspector(action_name, "output", ws)
      [] action_name = "validate_config" -> Inspector(action_name, "", ws)
      [] action_name \in {"fix_syntax_error", "add_import", "remove_unused_import",
                          "fix_test_assertion", "add_dependency", "fix_yaml_syntax"}
            -> Fixer(action_name, ws)
      [] OTHER -> UnknownAction(ws)

(***************************************************************************)
(* ReActAgent: src/src/ci_agent.py                                         *)
(***************************************************************************)
\* reason: the model response is any text; json.loads and the shape test
\* leave an error Decision or the parsed object, whose tool_call is a dict
\* with its tool and input keys ("dict"), a dict without them
\* ("dict_no_keys") or some other JSON value ("other")
ReActAgent_reason ==
    {Return(ErrorDecision("Failed to parse LLM response as JSON")),
     Return(ErrorDecision("Invalid reasoning format from LLM")),
     Return(ErrorDecision("Reasoning failed")),
     Return(Decision("other", "")),
     Return(Decision("dict_no_keys", ""))}
    \cup {Return(Decision("dict", t)) : t \in ProposedTools}

\* act forgetting the result of the tool
ReActAgent_act_no_result(decision, ws) ==
    {Outcome(ActionRecord("success", decision.tool, "", NoResult), ws)}

\* act: the set of (Action Record, workspace after) pairs
ReActAgent_act(decision, ws) ==
    IF decision.error # ""
    THEN {Outcome(ActionRecord("error", "none", decision.error, NoResult), ws)}
    ELSE IF decision.tool_call = "other"
    THEN {Outcome(ActionRecord("error", "unknown", "Action execution failed", NoResult), ws)}
    ELSE IF decision.tool = ""
    THEN {Outcome(ActionRecord("error", "none", "No tool specified in reasoning", NoResult), ws)}
    ELSE IF ws = "absent"
    THEN {Outcome(ActionRecord("error", decision.tool, "Workspace path does not exist", NoResult), ws)}
    ELSE {Outcome(ActionRecord("success", decision.tool, "", o.result), o.ws) :
             o \in execute_action(decision.tool, ws)}

\* observe taking any passing tool result for a passing pipeline
ReActAgent_observe_any_pass(record) ==
    IF record.status = "error"
    THEN Observation("Error occurred", "unknown", TRUE)
    ELSE IF record.result.status = "pass"
    THEN Observation("CI pipeline passed - all checks successful!", "pass", FALSE)
    ELSE IF record.result.action = "run_ci_pipeline"
         THEN Observation("CI pipeline failed", "fail", TRUE)
         ELSE Observation("failed", "unknown", TRUE)

\* observe: the decision table over the Action Record
ReActAgent_observe(record) ==
    IF record.status = "error"
    THEN Observation("Error occurred", "unknown", TRUE)
    ELSE IF record.result.status = "pass"
    THEN IF record.result.action = "run_ci_pipeline"
         THEN Observation("CI pipeline passed - all checks successful!", "pass", FALSE)
         ELSE IF record.result.data = "content"
         THEN Observation("File analysis complete", "unknown", TRUE)
         ELSE IF record.result.data = "output"
         THEN Observation("Test analysis", "unknown", TRUE)
         ELSE Observation("completed successfully", "unknown", TRUE)
    ELSE IF record.result.action = "run_ci_pipeline"
         THEN Observation("CI pipeline failed", "fail", TRUE)
         ELSE Observation("failed", "unknown", TRUE)

(***************************************************************************)
(* Stub agents: objects a caller of run_react_loop hands in place of a     *)
(* ReActAgent.  Their methods touch no workspace.                          *)
(***************************************************************************)
None == [kind |-> "None"]

Raise == [kind |-> "raise"]

Stub_reason ==
    {None, Raise, Return(ErrorDecision("stub error")), Return(Decision("dict", "run_ci_pipeline"))}

ErrorStub_reason == {Return(ErrorDecision("stub error"))}

Stub_act ==
    {None, Raise,
     Return(ActionRecord("error", "none", "stub error", NoResult)),
     Return(ActionRecord("success", "run_ci_pipeline", "", NoResult))}

Stub_observe ==
    {None, Raise}
    \cup {Return(Observation("stub", c, n)) : c \in {"pass", "fail", "unknown"}, n \in BOOLEAN}

(***************************************************************************)
(* ReAct runner: src/src/react_runner.py                                   *)
(***************************************************************************)
AgentReason ==
    CASE agentKind = "ReActAgent" -> ReActAgent_reason
      [] agentKind = "Stub" -> Stub_reason
      [] OTHER -> ErrorStub_reason

\* the agent's act step: (outcome, workspace after) pairs
AgentAct ==
    IF agentKind = "ReActAgent"
    THEN {Outcome(Return(o.result), o.ws) : o \in ReActAgent_act(reasoning, workspace)}
    ELSE {Outcome(o, workspace) : o \in Stub_act}

AgentObserve ==
    IF agentKind = "ReActAgent"
    THEN {Return(ReActAgent_observe(action_result))}
    ELSE Stub_observe

\* the observation built from the initial check
InitialObservation(initial_result) ==
    Observation("Initial CI status",
                IF initial_result.status = "pass" THEN "pass" ELSE "fail", TRUE)

\* the short circuit left out
AlreadyPassing_never(obs) == FALSE

\* "Check if already passing"
AlreadyPassing(obs) == obs.ci_status = "pass"

\* a loop running one iteration too many
HasNextTurn_inclusive(t, m) == t <= m

\* for turn in range(max_turns): is there another iteration
HasNextTurn(t, m) == t < m

\* an abort one failure late
TooManyErrors_strict(n) == n > max_consecutive_errors

TooManyErrors(n) == n >= max_consecutive_errors

\* the reset left out
ResetErrors_keep(n) == n

\* "Reset consecutive errors on successful step"
ResetErrors(n) == 0

\* "Check if CI now passes"
CINowPasses(obs) == obs.ci_status = "pass"

\* the break left out
NoMoreActions_never(obs) == FALSE

\* "If no more actions needed, break"
NoMoreActions(obs) == ~obs.next_action_needed

\* the values of the return statements
ReturnSuccess == "success"

\* an abort with a return value of its own
ReturnAbort_distinct == "aborted"

ReturnAbort == "error"

ReturnMaxTurns == "error"

ReturnCritical == "error"

\* the fault history: none, one, several
CountFault(n) == IF n < 2 THEN n + 1 ELSE 2

\* a return statement of run_react_loop
ReturnFrom(where, value, line) ==
    /\ pc' = "returned"
    /\ result' = value
    /\ exit' = where
    /\ log' = line

\* the end of a loop iteration (continue, or falling off the body): the
\* next iteration, or the statements after the loop
NextTurn ==
    IF HasNextTurn(turn, max_turns)
    THEN /\ turn' = turn + 1
         /\ pc' = "reason"
         /\ log' = "Turn"
         /\ UNCHANGED <<result, exit>>
    ELSE /\ turn' = turn
         /\ ReturnFrom("max_turns", ReturnMaxTurns, "Max turns reached")

\* the handling every failed sub-step gets: count it, abort at the
\* threshold, otherwise continue with the next iteration
RecoverableError ==
    /\ consecutive_errors' = consecutive_errors + 1
    /\ IF TooManyErrors(consecutive_errors + 1)
       THEN /\ turn' = turn
            /\ ReturnFrom("abort", ReturnAbort, "Too many consecutive errors")
       ELSE NextTurn

\* entry of run_react_loop: chdir into the workspace, the initial check,
\* the short circuit, and the first iteration of the loop
InitialCheck ==
    /\ UNCHANGED <<loopFrame, reason_arg>>
    /\ pc = "initial_check"
    /\ IF workspace = "absent"
       THEN /\ turn' = turn
            /\ ReturnFrom("critical", ReturnCritical, "Critical error in ReAct runner")
            /\ UNCHANGED <<observation_data, pipelinePassed, observed_text>>
       ELSE \E o \in run_ci_pipeline(workspace) :
               /\ observation_data' = InitialObservation(o.result)
               /\ observed_text' = InitialObservation(o.result).observation
               /\ pipelinePassed' = (o.result.status = "pass")
               /\ IF AlreadyPassing(InitialObservation(o.result))
                  THEN /\ turn' = turn
                       /\ ReturnFrom("already_passing", ReturnSuccess, "CI already passing!")
                  ELSE NextTurn
    /\ UNCHANGED <<mode, agentKind, workspace, max_turns, consecutive_errors, reasoning,
                   action_result, agent_result, ci_result, verdict,
                   last, nReason, nAct, nObserve, agentFaults, recheckRan,
                   raised>>

\* reason given the error text of the turn before, when that turn failed there
ReasonInput_feedback(observation, failed) ==
    IF failed.error # "" THEN failed.error ELSE observation.observation

\* react_runner.py:62: agent.reason(observation_data["observation"]), whatever
\* the Decision of the turn before was
ReasonInput(observation, failed) == observation.observation

\* REASON
Reason ==
    /\ UNCHANGED <<loopFrame, observed_text>>
    /\ pc = "reason"
    /\ IF observation_data.none
       THEN \* observation_data["observation"] raises TypeError before the agent is called
            /\ RecoverableError
            /\ UNCHANGED <<reasoning, last, nReason, agentFaults, reason_arg>>
       ELSE \E o \in AgentReason :
               /\ nReason' = nReason + 1
               /\ reason_arg' = ReasonInput(observation_data, reasoning)
               /\ IF o.kind = "return" /\ o.value.error = ""
                  THEN /\ reasoning' = o.value
                       /\ last' = "reason_ok"
                       /\ pc' = "act"
                       /\ log' = "Reason"
                       /\ UNCHANGED <<turn, consecutive_errors, result, exit, agentFaults>>
                  ELSE /\ reasoning' = IF o.kind = "return" THEN o.value ELSE NoDecision
                       /\ last' = "reason_fault"
                       /\ agentFaults' = CountFault(agentFaults)
                       /\ RecoverableError
    /\ nAct' = 0
    /\ nObserve' = 0
    /\ UNCHANGED <<mode, agentKind, workspace, max_turns, observation_data, action_result,
                   agent_result, ci_result, verdict, pipelinePassed, recheckRan,
                   raised>>

\* ACT
Act ==
    /\ UNCHANGED auxVars
    /\ pc = "act"
    /\ \E o \in AgentAct :
          /\ nAct' = nAct + 1
          /\ workspace' = o.ws
          /\ pipelinePassed' =
                (pipelinePassed \/ (/\ agentKind = "ReActAgent"
                                    /\ o.result.value.status = "success"
                                    /\ o.result.value.result.action = "run_ci_pipeline"
                                    /\ o.result.value.result.status = "pass"))
          /\ IF o.result.kind = "return" /\ o.result.value.status # "error"
             THEN /\ action_result' = o.result.value
                  /\ last' = "act_ok"
                  /\ pc' = "observe"
                  /\ log' = "Act"
                  /\ UNCHANGED <<turn, consecutive_errors, result, exit, agentFaults>>
             ELSE /\ action_result' = IF o.result.kind = "return" THEN o.result.value ELSE NoRecord
                  /\ last' = "act_fault"
                  /\ agentFaults' = CountFault(agentFaults)
                  /\ RecoverableError
    /\ UNCHANGED <<mode, agentKind, max_turns, observation_data, reasoning,
                   agent_result, ci_result, verdict, nReason, nObserve, recheckRan,
                   raised>>

\* OBSERVE and the checks that end the iteration
Observe ==
    /\ UNCHANGED <<loopFrame, reason_arg>>
    /\ pc = "observe"
    /\ \E o \in AgentObserve :
          /\ nObserve' = nObserve + 1
          /\ observed_text' = IF o.kind = "return" THEN o.value.observation
                               ELSE observed_text
          /\ CASE o.kind = "raise" ->
                    /\ last' = "observe_fault"
                    /\ agentFaults' = CountFault(agentFaults)
                    /\ RecoverableError
                    /\ UNCHANGED observation_data
               [] o.kind = "None" ->
                    /\ observation_data' = NoneObservation
                    /\ last' = "observe_fault"
                    /\ agentFaults' = CountFault(agentFaults)
                    /\ RecoverableError
               [] OTHER ->
                    /\ observation_data' = o.value
                    /\ last' = "observe_ok"
                    /\ consecutive_errors' = ResetErrors(consecutive_errors)
                    /\ UNCHANGED agentFaults
                    /\ IF CINowPasses(o.value)
                       THEN /\ turn' = turn
                            /\ ReturnFrom("ci_passes", ReturnSuccess, "SUCCESS! All CI checks now pass!")
                       ELSE IF NoMoreActions(o.value)
                       THEN /\ turn' = turn
                            /\ ReturnFrom("break", ReturnMaxTurns, "Max turns reached")
                       ELSE NextTurn
    /\ UNCHANGED <<mode, agentKind, workspace, max_turns, reasoning, action_result,
                   agent_result, ci_result, verdict, nReason, nAct, pipelinePassed, recheckRan,
                   raised>>

(***************************************************************************)
(* Orchestrator: src/src/orchestrator.py                                   *)
(***************************************************************************)
\* a result dict of the orchestrator: data.result, data.final_ci_status /
\* data.overall_status and error are "<absent>" when the key is missing
\* and error is "None" when it is null
Verdict(status, res, final, error) ==
    [status |-> status, result |-> res, final_ci_status |-> final, error |-> error]

\* the dict run_ci_agent builds from the value run_react_loop returned
run_ci_agent(loop_result) ==
    Verdict(IF loop_result = "success" THEN "pass" ELSE "fail", loop_result, "<absent>", "<absent>")

\* check_ci_status: the in-process run of CIPipeline.run_all_checks; a
\* check of a healthy workspace can still time out, and loading the
\* pipeline module can raise
check_ci_status(ws) ==
    (IF ws = "healthy"
     THEN {Verdict("pass", "<absent>", "pass", "<absent>")}
     ELSE {})
    \cup {Verdict("fail", "<absent>", "fail", "<absent>"),
          Verdict("fail", "<absent>", "<absent>", "CI status check failed")}

\* success declared on either signal
Success_either(agent, ci) == agent.status = "pass" \/ ci.status = "pass"

\* success = (agent_result["status"] == "pass" and ci_result["status"] == "pass")
Success(agent, ci) == agent.status = "pass" /\ ci.status = "pass"

\* ci_result.get("data", {}).get("overall_status", "unknown")
FinalCIStatus(ci) == IF ci.final_ci_status = "<absent>" THEN "unknown" ELSE ci.final_ci_status

\* the dict orchestrate_ci_fix returns after the re-check
FinalVerdict(agent, ci) ==
    Verdict(IF Success(agent, ci) THEN "pass" ELSE "fail",
            agent.result, FinalCIStatus(ci),
            IF Success(agent, ci) THEN "None" ELSE "Agent result, CI status, Final CI")

\* orchestrate_ci_fix up to the call of run_ci_agent: provision the workspace
create_error_workspace ==
    /\ UNCHANGED auxVars
    /\ mode = "orchestrator"
    /\ pc = "idle"
    /\ \/ /\ verdict' = Verdict("fail", "<absent>", "<absent>", "Workspace creation failed")
          /\ pc' = "done"
          /\ raised' = "provision"
          /\ UNCHANGED workspace
       \/ /\ workspace' \in {"healthy", "broken"}
          /\ pc' = "run_ci_agent"
          /\ UNCHANGED <<verdict, raised>>
    /\ UNCHANGED <<mode, agentKind, max_turns, turn, consecutive_errors, observation_data,
                   reasoning, action_result, result, exit, log, agent_result, ci_result,
                   last, nReason, nAct, nObserve, agentFaults, pipelinePassed, recheckRan>>

\* the dict run_ci_agent returns from its except clause, which
\* orchestrate_ci_fix returns as it is
AgentExecutionFailed ==
    Verdict("fail", "<absent>", "<absent>", "Agent execution failed")

\* run_ci_agent calls run_react_loop(agent, workspace, max_turns=20); the
\* statements of run_react_loop before its try block (Path.absolute,
\* os.getcwd) raise when the directory of the process is gone
run_ci_agent_call ==
    /\ UNCHANGED auxVars
    /\ mode = "orchestrator"
    /\ pc = "run_ci_agent"
    /\ max_turns' = orchestrator_max_turns
    /\ \/ /\ pc' = "initial_check"
          /\ UNCHANGED <<agent_result, verdict, raised>>
       \/ /\ agent_result' = AgentExecutionFailed
          /\ verdict' = AgentExecutionFailed
          /\ raised' = "agent"
          /\ pc' = "done"
    /\ UNCHANGED <<mode, agentKind, workspace, turn, consecutive_errors, observation_data,
                   reasoning, action_result, result, exit, log, ci_result,
                   last, nReason, nAct, nObserve, agentFaults, pipelinePassed, recheckRan>>

\* run_ci_agent returns; orchestrate_ci_fix returns a failed agent result as it is
run_ci_agent_return ==
    /\ UNCHANGED auxVars
    /\ mode = "orchestrator"
    /\ pc = "returned"
    /\ agent_result' = run_ci_agent(result)
    /\ IF run_ci_agent(result).status = "fail"
       THEN /\ verdict' = run_ci_agent(result)
            /\ pc' = "done"
       ELSE /\ pc' = "recheck"
            /\ UNCHANGED verdict
    /\ UNCHANGED <<mode, agentKind, workspace, max_turns, turn, consecutive_errors,
                   observation_data, reasoning, action_result, result, exit, log, ci_result,
                   last, nReason, nAct, nObserve, agentFaults, pipelinePassed, recheckRan,
                   raised>>

\* an orchestrate_ci_fix without its except clause
MainLevelExcept_reraise == Raise

\* except Exception as e: return {"status": "fail", "error": ..., "data": ...}
MainLevelExcept ==
    Return(Verdict("fail", "<absent>", "<absent>", "Orchestration failed at main level"))

\* the independent re-check and the final verdict; os.getcwd before the try
\* block of check_ci_status and os.chdir in its finally clause raise past
\* check_ci_status and reach the except clause of orchestrate_ci_fix
Recheck ==
    /\ UNCHANGED auxVars
    /\ mode = "orchestrator"
    /\ pc = "recheck"
    /\ \/ /\ \E ci \in check_ci_status(workspace) :
                /\ ci_result' = ci
                /\ verdict' = FinalVerdict(agent_result, ci)
                /\ raised' = IF ci.error = "<absent>" THEN raised ELSE "recheck"
          /\ pc' = "done"
       \/ /\ raised' = "recheck_outer"
          /\ IF MainLevelExcept.kind = "return"
             THEN verdict' = MainLevelExcept.value /\ pc' = "done"
             ELSE pc' = "raised" /\ UNCHANGED verdict
          /\ UNCHANGED ci_result
    /\ recheckRan' = TRUE
    /\ UNCHANGED <<mode, agentKind, workspace, max_turns, turn, consecutive_errors,
                   observation_data, reasoning, action_result, result, exit, log, agent_result,
                   last, nReason, nAct, nObserve, agentFaults, pipelinePassed>>

(***************************************************************************)
(* Specification                                                           *)
(***************************************************************************)
\* either orchestrate_ci_fix is about to run on a seed, or a caller is
\* about to run run_react_loop on a workspace with an agent of its own
\* no execute_action call on files has been made
NoOutcome == [kind |-> "none"]

ToolsIdle ==
    /\ workspace_files = <<>>
    /\ tool_name = ""
    /\ tool_params = <<>>
    /\ tool_outcome = NoOutcome
    /\ nCalls = 0

NoScript == [line |-> "", verify |-> FALSE]

SeedIdle == llm_script = NoScript

\* the runs a host starts in one process
Runs == {1, 2}

\* the directory the host was launched in
Launch == "/app"

NoFrames == [loop |-> "", tool |-> "", check |-> ""]

\* no run has been started on a worker thread
CwdIdle ==
    /\ cwd = Launch
    /\ thread_pc = [t \in Runs |-> "off"]
    /\ original_cwd = [t \in Runs |-> NoFrames]
    /\ agent_ws = [t \in Runs |-> ""]
    /\ check_ws = [t \in Runs |-> ""]
    /\ tool_calls = [t \in Runs |-> 0]
    /\ entry_cwd = [t \in Runs |-> NoFrames]
    /\ tool_exit = [t \in Runs |-> "none"]
    /\ ran_in = [t \in Runs |-> "none"]

\* the directories of the host: where it was launched, and its workspaces
Seeds == {"seed_syntax", "seed_lint"}

WorkspaceOf(seed) == IF seed = "seed_syntax" THEN "/app/workspaces/test_seed_syntax"
                     ELSE "/app/workspaces/test_seed_lint"

\* ci_agent.py:29-37 and llm.py:142: the request reason makes for an observation
Request(observation) ==
    [system_msg |-> "", prompt |-> <<"ci_agent_prompt.txt", observation>>,
     model |-> "gpt-4o-mini", max_tokens |-> "1000"]

\* the observation texts the runs of the host feed to reason
ObservationTexts == {"CI failed: SyntaxError", "CI failed: W391"}

\* llm.py:20-23: the digest of system_msg|prompt|model|max_tokens, which is
\* taken to differ whenever the joined string differs
\* (named with a leading underscore in the source)
get_input_hash(prompt, system_msg, model, max_tokens) ==
    <<system_msg, "|">> \o prompt \o <<"|", model, "|", max_tokens>>

Fingerprints ==
    {get_input_hash(Request(o).prompt, Request(o).system_msg, Request(o).model,
                    Request(o).max_tokens) : o \in ObservationTexts}

NoCall == [key |-> <<>>, source |-> "none", response |-> ""]

\* no model call has been made and no cache file exists
CacheIdle ==
    /\ cache_files = {}
    /\ scenario_pc = "off"
    /\ scenario = ""
    /\ llm_outcome = NoCall
    /\ api_calls = [k \in Fingerprints |-> 0]
    /\ completed = {}

\* no tool has started a process
ProcIdle ==
    /\ proc_tool = ""
    /\ proc_script = FALSE
    /\ proc_pc = "off"
    /\ proc_status = "none"
    /\ proc_elapsed = 0
    /\ proc_result = NoResult
    /\ proc_calls = 0

\* observe has not been called on its own
ObsIdle ==
    /\ obs_record = NoRecord
    /\ obs_result = NoneObservation
    /\ obs_calls = 0

\* reason has not been called
FlowIdle ==
    /\ reason_arg = ""
    /\ observed_text = ""

MoreIdle == CacheIdle /\ ProcIdle /\ ObsIdle /\ FlowIdle

AuxIdle == ToolsIdle /\ SeedIdle /\ CwdIdle /\ MoreIdle

Init ==
    /\ mode \in {"orchestrator", "direct"}
    /\ IF mode = "orchestrator"
       THEN /\ pc = "idle"
            /\ agentKind = "ReActAgent"
            /\ workspace = "absent"
            /\ max_turns = 0
       ELSE /\ pc = "initial_check"
            /\ agentKind \in AgentKinds
            /\ workspace \in {"absent", "healthy", "broken"}
            /\ max_turns \in 0..MaxTurns
    /\ turn = 0
    /\ consecutive_errors = 0
    /\ observation_data = NoneObservation
    /\ reasoning = NoDecision
    /\ action_result = NoRecord
    /\ result = "none"
    /\ exit = "none"
    /\ log = ""
    /\ agent_result = NoVerdict
    /\ ci_result = NoVerdict
    /\ verdict = NoVerdict
    /\ last = "none"
    /\ nReason = 0
    /\ nAct = 0
    /\ nObserve = 0
    /\ agentFaults = 0
    /\ pipelinePassed = FALSE
    /\ recheckRan = FALSE
    /\ raised = "none"
    /\ AuxIdle

Next ==
    \/ create_error_workspace
    \/ run_ci_agent_call
    \/ InitialCheck
    \/ Reason
    \/ Act
    \/ Observe
    \/ run_ci_agent_return
    \/ Recheck

Spec == Init /\ [][Next]_vars

TypeOK ==
    /\ mode \in {"orchestrator", "direct"}
    /\ pc \in {"idle", "run_ci_agent", "initial_check", "reason", "act", "observe",
               "returned", "recheck", "done", "raised"}
    /\ agentKind \in AgentKinds
    /\ workspace \in {"absent", "healthy", "broken"}
    /\ turn \in 0..max_turns
    /\ consecutive_errors \in 0..max_consecutive_errors
    /\ result \in {"none", "success", "error"}
    /\ exit \in {"none", "critical", "already_passing", "ci_passes", "abort", "break", "max_turns"}

(***************************************************************************)
(* Properties of the runner and the orchestrator                           *)
(***************************************************************************)
Returned == pc \in {"returned", "recheck", "done"} /\ exit # "none"

\* C1: when the initial run_ci_pipeline check returns status pass,
\* run_react_loop returns "success" and agent.reason, agent.act and
\* agent.observe have been invoked zero times (zero turns).
C1_InitialPassZeroTurns ==
    (/\ ~observation_data.none
     /\ observation_data.observation = "Initial CI status"
     /\ observation_data.ci_status = "pass")
    => /\ Returned
       /\ result = "success"
       /\ exit = "already_passing"
       /\ turn = 0
       /\ nReason = 0 /\ nAct = 0 /\ nObserve = 0
       /\ last = "none"

C1_Witness == pc = "returned" /\ exit = "already_passing" /\ pipelinePassed

\* C2: whatever the agent returns or raises, at most max_turns turns are
\* started: agent.reason is invoked at most once per started turn, act and
\* observe at most once per turn, and the exhaustion return comes after
\* exactly max_turns turns with a non-success result.
C2_TurnBudget ==
    /\ turn <= max_turns
    /\ nReason <= turn
    /\ nAct <= 1
    /\ nObserve <= nAct
    /\ exit = "max_turns" => (turn = max_turns /\ result # "success")

C2_Witness ==
    /\ exit = "max_turns"
    /\ max_turns >= 2
    /\ nReason = max_turns
    /\ agentFaults >= 1
    /\ last = "observe_ok"

\* C3 as stated: with a reason step that always returns {error: ...} and
\* a failing initial check, the loop aborts after exactly 3 turns for
\* every max_turns.
C3_Original ==
    (agentKind = "ErrorStub" /\ Returned /\ exit \notin {"already_passing", "critical"})
    => (exit = "abort" /\ turn = 3 /\ nReason = 3)

\* C3 amended: with a reason step that always returns {error: ...} and a
\* failing initial check, the loop aborts after exactly 3 turns (and not
\* before) for every max_turns of at least 3; with a smaller max_turns it
\* runs max_turns turns and ends at the budget.  Both ends are non-success.
C3_AbortAfterThree ==
    (agentKind = "ErrorStub" /\ exit \notin {"already_passing", "critical"})
    => /\ pc = "reason" => (turn <= 3 /\ nReason = turn - 1 /\ consecutive_errors = turn - 1)
       /\ Returned =>
             /\ result = "error"
             /\ nReason = turn
             /\ IF max_turns >= 3
                THEN exit = "abort" /\ turn = 3
                ELSE exit = "max_turns" /\ turn = max_turns

C3_Witness ==
    agentKind = "ErrorStub" /\ exit = "abort" /\ turn = 3 /\ max_turns > 3

\* C4 as stated: any successful sub-step (reason, act or observe) resets
\* the consecutive-error counter to zero.
C4_Original ==
    last \in {"reason_ok", "act_ok", "observe_ok"} => consecutive_errors = 0

\* C4 amended: only an observe step that completes (returns an
\* observation without raising) resets the consecutive-error counter to
\* zero; a successful reason or act leaves the counter as it is, so the
\* failures of consecutive turns accumulate.
C4_ObserveResets ==
    [][/\ (pc = "observe" /\ last' = "observe_ok") => consecutive_errors' = 0
       /\ (pc \in {"reason", "act"} /\ last' \in {"reason_ok", "act_ok"})
             => consecutive_errors' = consecutive_errors]_vars

C4_Witness ==
    /\ last = "observe_ok"
    /\ agentFaults = 1
    /\ nReason = 2
    /\ consecutive_errors = 0

\* C5: with a ReActAgent, run_react_loop returns "success" only if a
\* run_ci_pipeline invocation of the run (the initial check or one made by
\* act) returned status pass; and for every agent the loop returns
\* "success" at the first observation whose ci_status is pass, so that no
\* reason, act or observe step follows it.
C5_SuccessOnlyOnPass ==
    /\ (agentKind = "ReActAgent" /\ result = "success") => pipelinePassed
    /\ (~observation_data.none /\ observation_data.ci_status = "pass")
          => (Returned /\ result = "success")

C5_Witness ==
    /\ agentKind = "ReActAgent"
    /\ exit = "ci_passes"
    /\ result = "success"
    /\ action_result.result.action = "run_ci_pipeline"
    /\ turn >= 2

\* C6: an observation with next_action_needed false and a ci_status other
\* than pass stops the runner: no further turn starts and the result is
\* not success.
C6_NoMoreActionStops ==
    (/\ ~observation_data.none
     /\ ~observation_data.next_action_needed
     /\ observation_data.ci_status # "pass")
    => (Returned /\ exit = "break" /\ result = "error")

C6_Witness ==
    /\ exit = "break"
    /\ turn < max_turns
    /\ ~observation_data.next_action_needed
    /\ observation_data.ci_status = "fail"

\* C7 as stated: the value run_react_loop returns after an abort, and the
\* verdict built from it, differ from those of a run that used up max_turns.
C7_Original ==
    exit = "abort"
    => /\ result # ReturnMaxTurns
       /\ pc = "done" => verdict # run_ci_agent(ReturnMaxTurns)

\* C7 amended: an abort and an exhausted turn budget are told apart only
\* by the line run_react_loop prints; both return "error" and the
\* orchestrator's verdict is the same {status: fail, data.result: error}.
C7_SameResultDifferentLog ==
    /\ exit \in {"abort", "max_turns"}
          => /\ result = "error"
             /\ (mode = "orchestrator" /\ pc = "done")
                   => verdict = Verdict("fail", "error", "<absent>", "<absent>")
    /\ exit = "abort" => log = "Too many consecutive errors"
    /\ exit = "max_turns" => log = "Max turns reached"

C7_Witness == mode = "orchestrator" /\ pc = "done" /\ exit = "abort"

\* C8: a single fault of one sub-step of the agent never by itself leads
\* to an abort for consecutive errors.
C8_SingleFaultNoAbort == ~(exit = "abort" /\ agentFaults = 1)

\* C9: once act has run on a decision that names an unregistered tool, the
\* turn counts as failed: the consecutive-error counter was incremented.
C9_UnknownToolCounts ==
    (/\ agentKind = "ReActAgent"
     /\ reasoning.tool_call = "dict"
     /\ reasoning.tool \notin known_actions \cup {""}
     /\ last \in {"act_ok", "act_fault", "observe_ok", "observe_fault"})
    => (last = "act_fault" /\ consecutive_errors >= 1)

\* C10: orchestrate_ci_fix returns status pass if and only if
\* run_react_loop returned "success" and the check_ci_status executed
\* after it reported pass; every pass verdict has final_ci_status pass.
C10_PassIffBoth ==
    (mode = "orchestrator" /\ pc = "done")
    => /\ verdict.status \in {"pass", "fail"}
       /\ verdict.status = "pass"
             <=> (result = "success" /\ recheckRan /\ ci_result.status = "pass")
       /\ verdict.status = "pass" => verdict.final_ci_status = "pass"

C10_Witness ==
    /\ mode = "orchestrator"
    /\ pc = "done"
    /\ verdict.status = "pass"
    /\ exit = "ci_passes"

\* C11: every verdict with status fail that orchestrate_ci_fix returns
\* carries an error field holding a text (present and not null).
C11_FailHasError ==
    (mode = "orchestrator" /\ pc = "done" /\ verdict.status = "fail")
    => verdict.error \notin {"<absent>", "None"}

\* C12: orchestrate_ci_fix never raises; an exception raised while
\* provisioning, while running the runner or during the re-check ends in a
\* returned verdict with status fail.
C12_NeverRaises ==
    /\ pc # "raised"
    /\ (mode = "orchestrator" /\ raised # "none") => (pc = "done" /\ verdict.status = "fail")

C12_Witness ==
    /\ pc = "done"
    /\ raised = "recheck_outer"
    /\ result = "success"
    /\ verdict.status = "fail"

\* C13: act on a decision that names an unregistered tool, in a workspace
\* that exists, returns an Action Record with status error and leaves the
\* workspace as it was.
C13_UnknownToolErrorRecord ==
    [][(/\ pc = "act"
        /\ agentKind = "ReActAgent"
        /\ workspace # "absent"
        /\ reasoning.tool_call = "dict"
        /\ reasoning.tool \notin known_actions \cup {""})
       => (action_result'.status = "error" /\ workspace' = workspace)]_vars

\* C14: with a ReActAgent, every observation of a run that has
\* ci_status=pass, the initial one included, stems from a run_ci_pipeline
\* invocation that returned pass and has next_action_needed=false.
C14_PassObservation ==
    (/\ agentKind = "ReActAgent"
     /\ ~observation_data.none
     /\ observation_data.ci_status = "pass")
    => (pipelinePassed /\ ~observation_data.next_action_needed)

\* C15: a decision returned by ReActAgent.reason without an error key has
\* a tool_call that is a dict with a tool key and an input key.
C15_DecisionShape ==
    (agentKind = "ReActAgent" /\ nReason > 0 /\ reasoning.error = "")
    => reasoning.tool_call = "dict"

\* the decisions of ReActAgent.reason that the runner does not pass on to
\* act, which a direct caller of act can
ErrorDecisions == {o.value : o \in {r \in ReActAgent_reason : r.value.error # ""}}

\* what C16 asks of a record act returned for decision d on workspace ws
ActRecordOK(rec, d, ws, wsAfter) ==
    /\ ~rec.none
    /\ rec.action # ""
    /\ rec.status \in {"success", "error"}
    /\ rec.status = "success" => Outcome(rec.result, wsAfter) \in execute_action(d.tool, ws)

\* C16: every record ReActAgent.act returns, for the decision the runner
\* hands it and for every error decision, is a
\* dict with an action field and a status in {success, error}; status
\* success implies that result is the value the invoked tool returned;
\* act itself never raises.
C16_ActRecord ==
    [][/\ (pc = "act" /\ agentKind = "ReActAgent")
             => /\ last' \in {"act_ok", "act_fault"}
                /\ ActRecordOK(action_result', reasoning, workspace, workspace')
       /\ pc = "act" =>
             \A d \in ErrorDecisions, ws \in {"absent", "healthy", "broken"} :
                \A o \in ReActAgent_act(d, ws) : ActRecordOK(o.result, d, ws, o.ws)]_vars

C16_Witness ==
    /\ agentKind = "ReActAgent"
    /\ last = "act_ok"
    /\ action_result.status = "success"
    /\ action_result.action = "fix_syntax_error"
    /\ action_result.result.status = "fail"

(***************************************************************************)
(* Texts and files                                                         *)
(* A text is a sequence of atoms: the characters the code looks at (":",   *)
(* "#", "(", ")", "==", " ", "\n"), four spaces of indentation ("    "),   *)
(* and runs of other characters that the code only copies.  A file is the  *)
(* text stored under its path; a missing path is a missing file.           *)
(***************************************************************************)
Whitespace == {" ", "    ", "\n"}

Max(a, b) == IF a > b THEN a ELSE b

Min(a, b) == IF a < b THEN a ELSE b

\* number of elements of s equal to a
RECURSIVE Count(_, _)
Count(s, a) ==
    IF s = <<>> THEN 0 ELSE (IF Head(s) = a THEN 1 ELSE 0) + Count(Tail(s), a)

\* `a in s` for a single atom
Contains(s, a) == \E i \in 1..Len(s) : s[i] = a

\* s.find(a) + 1: position of the first a in s, 0 without one
Find(s, a) == IF Contains(s, a) THEN CHOOSE i \in 1..Len(s) : s[i] = a /\ \A j \in 1..(i - 1) : s[j] # a ELSE 0

\* s.rfind(a) + 1: position of the last a in s, 0 without one
RFind(s, a) == IF Contains(s, a) THEN CHOOSE i \in 1..Len(s) : s[i] = a /\ \A j \in (i + 1)..Len(s) : s[j] # a ELSE 0

\* `t in s` for a text t
SubstringOf(t, s) == \E i \in 0..(Len(s) - Len(t)) : SubSeq(s, i + 1, i + Len(t)) = t

RECURSIVE LStrip(_)
LStrip(s) == IF s # <<>> /\ Head(s) \in Whitespace THEN LStrip(Tail(s)) ELSE s

RECURSIVE RStrip(_)
RStrip(s) ==
    IF s # <<>> /\ s[Len(s)] \in Whitespace THEN RStrip(SubSeq(s, 1, Len(s) - 1)) ELSE s

Strip(s) == LStrip(RStrip(s))

\* s.replace(a, t) for an atom a
RECURSIVE Replace(_, _, _)
Replace(s, a, t) ==
    IF s = <<>> THEN <<>>
    ELSE (IF Head(s) = a THEN t ELSE <<Head(s)>>) \o Replace(Tail(s), a, t)

\* s.replace(t, u) for a text t that is not empty
RECURSIVE ReplaceText(_, _, _)
ReplaceText(s, t, u) ==
    IF Len(s) < Len(t) THEN s
    ELSE IF SubSeq(s, 1, Len(t)) = t
         THEN u \o ReplaceText(SubSeq(s, Len(t) + 1, Len(s)), t, u)
         ELSE <<Head(s)>> \o ReplaceText(Tail(s), t, u)

\* s.split(a)[0]
BeforeFirst(s, a) == IF Contains(s, a) THEN SubSeq(s, 1, Find(s, a) - 1) ELSE s

\* f.readlines(): the lines of a text, each with its line end
RECURSIVE readlines(_)
readlines(content) ==
    IF content = <<>> THEN <<>>
    ELSE IF Contains(content, "\n")
         THEN <<SubSeq(content, 1, Find(content, "\n"))>>
              \o readlines(SubSeq(content, Find(content, "\n") + 1, Len(content)))
         ELSE <<content>>

\* content.split("\n"): the lines without their line ends, with a last
\* empty one after a final line end
RECURSIVE SplitLines(_)
SplitLines(content) ==
    IF Contains(content, "\n")
    THEN <<SubSeq(content, 1, Find(content, "\n") - 1)>>
         \o SplitLines(SubSeq(content, Find(content, "\n") + 1, Len(content)))
    ELSE <<content>>

\* f.writelines(lines)
RECURSIVE writelines(_)
writelines(lines) == IF lines = <<>> THEN <<>> ELSE Head(lines) \o writelines(Tail(lines))

\* params.split(":"): a parameter string is a sequence of fields and ":"
\* separators, a field being an atom
RECURSIVE Split(_)
Split(s) ==
    IF s = <<>> THEN <<"">>
    ELSE IF Head(s) = ":" THEN <<"">> \o Split(Tail(s))
    ELSE IF Len(s) = 1 THEN s
    ELSE <<Head(s)>> \o Split(SubSeq(s, 3, Len(s)))

\* an int() that takes a text without digits for 1
IntLiterals_lenient ==
    [t \in {"-1", "0", "1", "2", "3", "4", "5", "99", "x", ""} |->
        CASE t = "-1" -> -1 [] t = "0" -> 0 [] t = "1" -> 1 [] t = "2" -> 2
          [] t = "3" -> 3 [] t = "4" -> 4 [] t = "5" -> 5 [] t = "99" -> 99
          [] OTHER -> 1]

\* int(text): the integer literals the parameter strings use
IntLiterals ==
    [t \in {"-1", "0", "1", "2", "3", "4", "5", "99"} |->
        CASE t = "-1" -> -1 [] t = "0" -> 0 [] t = "1" -> 1 [] t = "2" -> 2
          [] t = "3" -> 3 [] t = "4" -> 4 [] t = "5" -> 5 [] t = "99" -> 99]

\* position (from 1) of lines[i] in a list of n elements, 0 for an IndexError;
\* a negative index counts from the end
PyIndex(n, i) ==
    IF 0 <= i /\ i < n THEN i + 1
    ELSE IF i < 0 /\ 0 - i <= n THEN n + i + 1
    ELSE 0

\* list.insert(i, x): the index is clamped, a negative one counts from the end
ListInsert(l, i, x) ==
    LET at == IF i < 0 THEN Max(0, Len(l) + i) ELSE Min(i, Len(l))
    IN  SubSeq(l, 1, at) \o <<x>> \o SubSeq(l, at + 1, Len(l))

\* list.pop(i) for a valid position (from 1)
ListPop(l, at) == SubSeq(l, 1, at - 1) \o SubSeq(l, at + 1, Len(l))

ListSet(l, at, x) == [l EXCEPT ![at] = x]

(***************************************************************************)
(* Tools on files: src/src/tools/*.py                                      *)
(* A tool body either returns a result or raises; the try/except of the    *)
(* tool turns what the body raises into a fail result.                     *)
(***************************************************************************)
\* a key the result dict does not have
Absent == <<"<absent>">>

Result(action, status, data, error) ==
    [action |-> action, status |-> status, data |-> data, error |-> error]

Returns(res, files) == [kind |-> "return", value |-> res, files |-> files]

Raises(exc, files) == [kind |-> "raise", exc |-> exc, files |-> files]

\* a tool whose except clause re-raises
ExceptException_reraise(body, action, prefix) == body

\* try: <body> except Exception as e: return {action, "fail", prefix + str(e)}
ExceptException(body, action, prefix) ==
    IF body.kind = "raise"
    THEN Returns(Result(action, "fail", Absent, <<prefix, body.exc>>), body.files)
    ELSE body

\* open(path, "w") and write: the text replaces the file, or creates it
WriteFile(files, path, content) == (path :> content) @@ files

\* the path a whole parameter string names
PathOf(params) == IF Len(params) = 1 THEN params[1] ELSE "<no such file>"

\* syntax_fixer.py:11-38, the new text of the addressed line
add_colon(text) ==
    LET line == RStrip(text)
    IN  IF line # <<>> /\ Head(line) = "def " /\ Contains(line, ")")
        THEN LET func_part == IF Contains(line, "#") THEN Strip(BeforeFirst(line, "#"))
                              ELSE Strip(line)
                 comment_part == IF Contains(line, "#")
                                 THEN SubSeq(line, Find(line, "#"), Len(line))
                                 ELSE <<>>
                 paren_pos == RFind(func_part, ")")
             IN  IF paren_pos # 0
                 THEN (IF comment_part # <<>>
                       THEN SubSeq(func_part, 1, paren_pos) \o <<":", " ", " ">> \o comment_part
                       ELSE SubSeq(func_part, 1, paren_pos) \o <<":">>) \o <<"\n">>
                 ELSE func_part \o <<":", "\n">>
        ELSE (IF line # <<>> /\ line[Len(line)] = ":" THEN line ELSE line \o <<":">>)
             \o <<"\n">>

\* syntax_fixer.py:40-42
add_parenthesis(text) == RStrip(Replace(text, "print ", <<"print", "(">>)) \o <<")", "\n">>

\* syntax_fixer.py:44
fix_indentation(text) == <<"    ">> \o LStrip(text)

\* syntax_fixer.py:48-50 and 56-58: drop the blank lines before the line;
\* err when lines[line_num - 2] is out of range
RECURSIVE remove_blank_before(_, _)
remove_blank_before(lines, line_num) ==
    IF line_num > 1
    THEN IF line_num - 1 > Len(lines)
         THEN [err |-> TRUE, lines |-> lines, line_num |-> line_num]
         ELSE IF Strip(lines[line_num - 1]) = <<>>
              THEN remove_blank_before(ListPop(lines, line_num - 1), line_num - 1)
              ELSE [err |-> FALSE, lines |-> lines, line_num |-> line_num]
    ELSE [err |-> FALSE, lines |-> lines, line_num |-> line_num]

\* syntax_fixer.py:45-53 (and 54-61, the same statements)
add_blank_lines(lines, line_num) ==
    LET r == remove_blank_before(lines, line_num)
    IN  [err |-> r.err,
         lines |-> ListInsert(ListInsert(r.lines, r.line_num - 1, <<"\n">>),
                              r.line_num - 1, <<"\n">>)]

\* lines[line_num - 1] at its position (from 1), no text for an IndexError
LineAt(lines, at) == IF at = 0 THEN <<>> ELSE lines[at]

\* lines[line_num - 1] = text: err when the index is out of range
EditLine(lines, at, text) ==
    IF at = 0 THEN [err |-> TRUE, lines |-> lines]
    ELSE [err |-> FALSE, lines |-> ListSet(lines, at, text)]

fix_syntax_error_body(params, files) ==
    LET parts == Split(params)
    IN  IF Len(parts) # 3 THEN Raises("ValueError: unpack", files)
        ELSE IF parts[2] \notin DOMAIN IntLiterals
        THEN Raises("ValueError: invalid literal for int()", files)
        ELSE IF parts[1] \notin DOMAIN files THEN Raises("FileNotFoundError", files)
        ELSE LET file_path == parts[1]
                 line_num == IntLiterals[parts[2]]
                 fix_type == parts[3]
                 lines == readlines(files[file_path])
                 at == PyIndex(Len(lines), line_num - 1)
                 edit == CASE fix_type = "add_colon" ->
                                 EditLine(lines, at, add_colon(LineAt(lines, at)))
                           [] fix_type = "add_parenthesis" ->
                                 EditLine(lines, at, add_parenthesis(LineAt(lines, at)))
                           [] fix_type = "fix_indentation" ->
                                 EditLine(lines, at, fix_indentation(LineAt(lines, at)))
                           [] fix_type \in {"add_blank_lines", "remove_blank_lines"} ->
                                 add_blank_lines(lines, line_num)
                           [] OTHER -> [err |-> FALSE, lines |-> lines]
             IN  IF edit.err THEN Raises("IndexError", files)
                 ELSE Returns(Result("fix_syntax_error", "pass", Absent, Absent),
                              WriteFile(files, file_path, writelines(edit.lines)))

fix_syntax_error(params, files) ==
    {ExceptException(fix_syntax_error_body(params, files),
                     "fix_syntax_error", "Error fixing syntax: ")}

\* test_fixer.py:16-21, the new text of the addressed line
fix_assertion_line(text, correct_value) ==
    IF Contains(text, "==")
    THEN BeforeFirst(text, "==") \o <<"==", " ", correct_value>>
         \o (IF text[Len(text)] = "\n" THEN <<"\n">> ELSE <<>>)
    ELSE text

fix_test_assertion_body(params, files) ==
    LET parts == Split(params)
    IN  IF Len(parts) \notin {3, 4} THEN Raises("ValueError: Expected 3 or 4 parts", files)
        ELSE IF parts[2] \notin DOMAIN IntLiterals
        THEN Raises("ValueError: invalid literal for int()", files)
        ELSE IF parts[1] \notin DOMAIN files THEN Raises("FileNotFoundError", files)
        ELSE LET file_path == parts[1]
                 line_num == IntLiterals[parts[2]]
                 correct_value == parts[Len(parts)]
                 lines == readlines(files[file_path])
                 at == PyIndex(Len(lines), line_num - 1)
             IN  IF at = 0 THEN Raises("IndexError", files)
                 ELSE Returns(Result("fix_test_assertion", "pass", Absent, Absent),
                              WriteFile(files, file_path,
                                  writelines(ListSet(lines, at,
                                      fix_assertion_line(lines[at], correct_value)))))

fix_test_assertion(params, files) ==
    {ExceptException(fix_test_assertion_body(params, files),
                     "fix_test_assertion", "Error fixing test: ")}

\* config_fixer.py:8-11: some line that is not blank and does not start
\* with "#" has 'name lint' and no ":"
MissingColonAfterNameLint(content) ==
    \E i \in 1..Len(SplitLines(content)) :
        LET line == SplitLines(content)[i]
        IN  /\ Strip(line) # <<>>
            /\ Head(line) # "#"
            /\ Contains(line, "name lint")
            /\ ~Contains(line, ":")

validate_config_body(filename, files) ==
    IF PathOf(filename) \notin DOMAIN files THEN Raises("FileNotFoundError", files)
    ELSE IF MissingColonAfterNameLint(files[PathOf(filename)])
    THEN Returns(Result("validate_config", "fail", Absent,
                        <<"Line ", "Missing colon after 'name lint'">>), files)
    ELSE Returns(Result("validate_config", "pass", Absent, Absent), files)

validate_config(filename, files) ==
    {ExceptException(validate_config_body(filename, files),
                     "validate_config", "Error validating config: ")}

\* config_fixer.py:27-35, the new text of the addressed line
yaml_add_colon(text) ==
    IF Contains(text, "name lint") /\ ~Contains(BeforeFirst(text, "#"), ":")
    THEN Replace(text, "name lint", <<"name", ":", " ", "lint">>)
    ELSE RStrip(text) \o <<":", "\n">>

fix_yaml_syntax_body(params, files) ==
    LET parts == Split(params)
    IN  IF Len(parts) # 3 THEN Raises("ValueError: unpack", files)
        ELSE IF parts[2] \notin DOMAIN IntLiterals
        THEN Raises("ValueError: invalid literal for int()", files)
        ELSE IF parts[1] \notin DOMAIN files THEN Raises("FileNotFoundError", files)
        ELSE LET file_path == parts[1]
                 line_num == IntLiterals[parts[2]]
                 fix_type == parts[3]
                 lines == readlines(files[file_path])
                 at == PyIndex(Len(lines), line_num - 1)
                 edit == IF fix_type = "add_colon"
                         THEN EditLine(lines, at, yaml_add_colon(LineAt(lines, at)))
                         ELSE [err |-> FALSE, lines |-> lines]
             IN  IF edit.err THEN Raises("IndexError", files)
                 ELSE Returns(Result("fix_yaml_syntax", "pass", Absent, Absent),
                              WriteFile(files, file_path, writelines(edit.lines)))

fix_yaml_syntax(params, files) ==
    {ExceptException(fix_yaml_syntax_body(params, files),
                     "fix_yaml_syntax", "Error fixing YAML: ")}

\* import_manager.py:4 and 22: params.split(":", 1) into a path and the rest
HasTwoParts(params) == Contains(params, ":")

FirstPart(params) == IF Head(params) = ":" THEN "" ELSE Head(params)

RestPart(params) == SubSeq(params, Find(params, ":") + 1, Len(params))

add_import_body(params, files) ==
    IF ~HasTwoParts(params) THEN Raises("ValueError: unpack", files)
    ELSE IF FirstPart(params) \notin DOMAIN files THEN Raises("FileNotFoundError", files)
    ELSE LET file_path == FirstPart(params)
             import_stmt == RestPart(params)
             content == files[file_path]
         IN  Returns(Result("add_import", "pass", Absent, Absent),
                     WriteFile(files, file_path,
                         IF SubstringOf(import_stmt, content) THEN content
                         ELSE import_stmt \o <<"\n">> \o content))

add_import(params, files) ==
    {ExceptException(add_import_body(params, files), "add_import", "Error adding import: ")}

\* import_manager.py:27-30: the lines that do not contain the statement
RECURSIVE LinesWithout(_, _)
LinesWithout(lines, t) ==
    IF lines = <<>> THEN <<>>
    ELSE (IF SubstringOf(t, Head(lines)) THEN <<>> ELSE <<Head(lines)>>)
         \o LinesWithout(Tail(lines), t)

remove_unused_import_body(params, files) ==
    IF ~HasTwoParts(params) THEN Raises("ValueError: unpack", files)
    ELSE IF FirstPart(params) \notin DOMAIN files THEN Raises("FileNotFoundError", files)
    ELSE LET file_path == FirstPart(params)
             import_stmt == RestPart(params)
         IN  Returns(Result("remove_unused_import", "pass", Absent, Absent),
                     WriteFile(files, file_path,
                         writelines(LinesWithout(readlines(files[file_path]),
                                                 Strip(import_stmt)))))

remove_unused_import(params, files) ==
    {ExceptException(remove_unused_import_body(params, files),
                     "remove_unused_import", "Error removing import: ")}

\* dependency_manager.py:4-5: open("requirements.txt", "a") creates the file
add_dependency_body(package_name, files) ==
    Returns(Result("add_dependency", "pass", Absent, Absent),
            WriteFile(files, "requirements.txt",
                (IF "requirements.txt" \in DOMAIN files THEN files["requirements.txt"]
                 ELSE <<>>) \o <<"\n">> \o package_name \o <<"\n">>))

add_dependency(package_name, files) ==
    {ExceptException(add_dependency_body(package_name, files),
                     "add_dependency", "Error adding dependency: ")}

analyze_file_body(filename, files) ==
    IF PathOf(filename) \notin DOMAIN files THEN Raises("FileNotFoundError", files)
    ELSE Returns(Result("analyze_file", "pass", <<"content">>, Absent), files)

analyze_file(filename, files) ==
    {ExceptException(analyze_file_body(filename, files), "analyze_file", "Error reading ")}

(***************************************************************************)
(* The workspace: src/scripts/create_baseline.py and the seed              *)
(***************************************************************************)
calculator_py ==
       <<"def ", "add", "(", "a, b", ")", ":", "\n">>
    \o <<"    ", "return a + b", "\n">>
    \o <<"\n">>
    \o <<"\n">>
    \o <<"def ", "subtract", "(", "a, b", ")", ":", "\n">>
    \o <<"    ", "return a - b", "\n">>
    \o <<"\n">>
    \o <<"\n">>
    \o <<"def ", "multiply", "(", "a, b", ")", ":", "\n">>
    \o <<"    ", "return a * b", "\n">>
    \o <<"\n">>
    \o <<"\n">>
    \o <<"def ", "divide", "(", "a, b", ")", ":", "\n">>
    \o <<"    ", "if ", "b", " ", "==", " ", "0", ":", "\n">>
    \o <<"    ", "    ", "raise ValueError", "(", "\"Cannot divide by zero\"", ")", "\n">>
    \o <<"    ", "return a / b", "\n">>

test_calculator_py ==
       <<"from calculator import add, subtract, multiply, divide", "\n">>
    \o <<"import pytest", "\n">>
    \o <<"\n">>
    \o <<"\n">>
    \o <<"def ", "test_add", "(", ")", ":", "\n">>
    \o <<"    ", "assert add", "(", "2, 3", ")", " ", "==", " ", "5", "\n">>
    \o <<"    ", "assert add", "(", "-1, 1", ")", " ", "==", " ", "0", "\n">>
    \o <<"\n">>
    \o <<"\n">>
    \o <<"def ", "test_subtract", "(", ")", ":", "\n">>
    \o <<"    ", "assert subtract", "(", "5, 3", ")", " ", "==", " ", "2", "\n">>
    \o <<"    ", "assert subtract", "(", "0, 5", ")", " ", "==", " ", "-5", "\n">>
    \o <<"\n">>
    \o <<"\n">>
    \o <<"def ", "test_multiply", "(", ")", ":", "\n">>
    \o <<"    ", "assert multiply", "(", "4, 5", ")", " ", "==", " ", "20", "\n">>
    \o <<"    ", "assert multiply", "(", "-2, 3", ")", " ", "==", " ", "-6", "\n">>
    \o <<"\n">>
    \o <<"\n">>
    \o <<"def ", "test_divide", "(", ")", ":", "\n">>
    \o <<"    ", "assert divide", "(", "10, 2", ")", " ", "==", " ", "5", "\n">>
    \o <<"    ", "assert divide", "(", "7, 2", ")", " ", "==", " ", "3.5", "\n">>
    \o <<"\n">>
    \o <<"\n">>
    \o <<"def ", "test_divide_by_zero", "(", ")", ":", "\n">>
    \o <<"    ", "with ", "pytest.raises", "(", "ValueError", ")", ":", "\n">>
    \o <<"    ", "    ", "divide", "(", "5, 0", ")", "\n">>

requirements_txt ==
    <<"pytest>=7.0.0", "\n", "flake8>=5.0.0", "\n", "pyyaml>=6.0", "\n">>

\* the pipeline script, its body kept as one atom
ci_pipeline_py ==
       <<"#", "!/usr/bin/env python3", "\n">>
    \o <<"\n">>
    \o <<"class ", "CIPipeline", ":", "\n">>
    \o <<"    ", "<body of CIPipeline and main>", "\n">>

create_baseline ==
    [path \in {"calculator.py", "tests/test_calculator.py", "requirements.txt",
               "ci_pipeline.py"} |->
        CASE path = "calculator.py" -> calculator_py
          [] path = "tests/test_calculator.py" -> test_calculator_py
          [] path = "requirements.txt" -> requirements_txt
          [] path = "ci_pipeline.py" -> ci_pipeline_py]

\* scenarios/seed_syntax.py: the colon of def add(a, b): removed
induce_errors(files) ==
    WriteFile(files, "calculator.py",
        ReplaceText(files["calculator.py"],
                    <<"def ", "add", "(", "a, b", ")", ":">>,
                    <<"def ", "add", "(", "a, b", ")">>))

\* scenarios/seed_multi.py:14-32: the calculator with three colons missing,
\* two of them on def lines that end in a comment
seed_multi_calculator_py ==
       <<"\"\"\"Simple calculator functions\"\"\"", "\n">>
    \o <<"\n">>
    \o <<"def ", "add", "(", "a, b", ")", " ", " ", "#", " Missing colon ", "(",
         "syntax issue 1", ")", "\n">>
    \o <<"    ", "return a + b", "\n">>
    \o <<"\n">>
    \o <<"\n">>
    \o <<"def ", "subtract", "(", "a, b", ")", ":", "\n">>
    \o <<"    ", "return a - b", "\n">>
    \o <<"\n">>
    \o <<"\n">>
    \o <<"def ", "multiply", "(", "a, b", ")", " ", " ", "#", " Missing colon ", "(",
         "syntax issue 2", ")", "\n">>
    \o <<"    ", "return a * b", "\n">>
    \o <<"\n">>
    \o <<"\n">>
    \o <<"def ", "divide", "(", "a, b", ")", ":", "\n">>
    \o <<"    ", "if ", "b", " ", "==", " ", "0", "\n">>
    \o <<"    ", "    ", "raise ValueError", "(", "\"Cannot divide by zero\"", ")",
         " ", " ", "#", " Missing colon ", "(", "syntax issue 3", ")", "\n">>
    \o <<"    ", "return a / b", "\n">>

seed_multi(files) == WriteFile(files, "calculator.py", seed_multi_calculator_py)

\* a calculator whose function is a method: the def line with the missing
\* colon and the comment is indented
method_calculator_py ==
       <<"class ", "Calculator", ":", "\n">>
    \o <<"    ", "\"\"\"Simple calculator\"\"\"", "\n">>
    \o <<"    ", "def ", "add", "(", "self, a, b", ")", " ", " ", "#", " Missing colon",
         "\n">>
    \o <<"    ", "    ", "return a + b", "\n">>

\* the working directories the tools are called in
Workspaces ==
    {create_baseline, induce_errors(create_baseline), seed_multi(create_baseline),
     WriteFile(create_baseline, "calculator.py", method_calculator_py)}

\* the line the seed descriptor names (seed_syntax.py:27)
seed_syntax_line == 3

(***************************************************************************)
(* The pipeline of the workspace: ci_pipeline.py, as far as the files of   *)
(* the model can make its checks differ.  The Python parser, flake8 and    *)
(* pytest are programs outside the repository; they are modelled by what   *)
(* they say about the line structure of a file.                            *)
(***************************************************************************)
PythonFiles == {"calculator.py", "tests/test_calculator.py", "ci_pipeline.py"}

\* a line without its comment and surrounding white space
Code(line) == Strip(BeforeFirst(line, "#"))

RECURSIVE Indent(_)
Indent(line) == IF line # <<>> /\ Head(line) = "    " THEN 1 + Indent(Tail(line)) ELSE 0

IsHeader(code) == code # <<>> /\ Head(code) \in {"def ", "if ", "with ", "class "}

LineParses(line) ==
    LET code == Code(line)
    IN  \/ code = <<>>
        \/ /\ Count(code, "(") = Count(code, ")")
           /\ IsHeader(code) <=> (code[Len(code)] = ":")

RECURSIVE CodeLines(_)
CodeLines(lines) ==
    IF lines = <<>> THEN <<>>
    ELSE (IF Code(Head(lines)) = <<>> THEN <<>> ELSE <<RStrip(BeforeFirst(Head(lines), "#"))>>)
         \o CodeLines(Tail(lines))

\* ast.parse(text) succeeds
ast_parse(content) ==
    LET lines == readlines(content)
        code == CodeLines(lines)
    IN  /\ \A i \in 1..Len(lines) : LineParses(lines[i])
        /\ code # <<>> => Indent(code[1]) = 0
        /\ \A i \in 1..(Len(code) - 1) :
              IF IsHeader(Code(code[i]))
              THEN Indent(code[i + 1]) = Indent(code[i]) + 1
              ELSE Indent(code[i + 1]) <= Indent(code[i])

check_syntax(files) == \A path \in PythonFiles \cap DOMAIN files : ast_parse(files[path])

\* number of blank lines right before line i
RECURSIVE BlankBefore(_, _)
BlankBefore(lines, i) ==
    IF i > 1 /\ Strip(lines[i - 1]) = <<>> THEN 1 + BlankBefore(lines, i - 1) ELSE 0

\* flake8's blank-line rules: two blank lines before a top-level def that
\* is not at the top of the file, never more than two, none at the end
BlankLinesOK(content) ==
    LET lines == readlines(content)
    IN  /\ lines # <<>> => Strip(lines[Len(lines)]) # <<>>
        /\ \A i \in 1..Len(lines) :
              Strip(lines[i]) # <<>> =>
                 IF Head(lines[i]) \in {"def ", "class "} /\ BlankBefore(lines, i) < i - 1
                 THEN BlankBefore(lines, i) = 2
                 ELSE BlankBefore(lines, i) <= 2

check_lint(files) ==
    /\ check_syntax(files)
    /\ \A path \in {"calculator.py", "tests/test_calculator.py"} \cap DOMAIN files :
          BlankLinesOK(files[path])

\* pytest: the code of the calculator and of its tests is the baseline's
check_tests(files) ==
    /\ check_syntax(files)
    /\ \A path \in {"calculator.py", "tests/test_calculator.py"} :
          /\ path \in DOMAIN files
          /\ CodeLines(readlines(files[path])) = CodeLines(readlines(create_baseline[path]))

NotAlnum == {"", ":", "#", "(", ")", "==", " ", "    ", "\n"}

check_dependencies(files) ==
    /\ "requirements.txt" \in DOMAIN files
    /\ \A line \in {readlines(files["requirements.txt"])[i] :
                       i \in 1..Len(readlines(files["requirements.txt"]))} :
          (Strip(line) # <<>> /\ Head(Strip(line)) # "#")
             => \E i \in 1..Len(line) : line[i] \notin NotAlnum

\* overall_status = "pass"; the workspace has no YAML file and no secret
run_all_checks(files) ==
    /\ check_syntax(files)
    /\ check_lint(files)
    /\ check_tests(files)
    /\ check_dependencies(files)

\* ci_runner.py: python3 ci_pipeline.py exits 0, exits 1 or times out;
\* without the script, pytest alone decides
run_ci_pipeline_on(files) ==
    {Returns(Result("run_ci_pipeline", "fail", Absent, <<"CI pipeline timed out">>), files)}
    \cup
    (IF "ci_pipeline.py" \notin DOMAIN files
     THEN IF check_tests(files)
          THEN {Returns(Result("run_ci_pipeline", "pass", Absent, Absent), files)}
          ELSE {Returns(Result("run_ci_pipeline", "fail", Absent, <<"Test failures">>), files)}
     ELSE IF run_all_checks(files)
          THEN {Returns(Result("run_ci_pipeline", "pass", Absent, Absent), files)}
          ELSE {Returns(Result("run_ci_pipeline", "fail", Absent, <<"CI pipeline failed">>), files)})

\* file_analyzer.py:17-30: pytest on one path exits 0 or not, or the
\* subprocess cannot be started
analyze_test_failure(test_path, files) ==
    {ExceptException(Raises("FileNotFoundError", files),
                     "analyze_test_failure", "Error analyzing test: ")}
    \cup
    (IF PathOf(test_path) \in DOMAIN files /\ check_tests(files)
     THEN {Returns(Result("analyze_test_failure", "pass", <<"output">>, Absent), files)}
     ELSE {Returns(Result("analyze_test_failure", "fail", Absent, <<"output">>), files)})

\* tools/__init__.py:25-48 on the files of the working directory
execute_action_on(action_name, params, files) ==
    CASE action_name = "run_ci_pipeline" -> run_ci_pipeline_on(files)
      [] action_name = "analyze_file" -> analyze_file(params, files)
      [] action_name = "analyze_test_failure" -> analyze_test_failure(params, files)
      [] action_name = "validate_config" -> validate_config(params, files)
      [] action_name = "fix_syntax_error" -> fix_syntax_error(params, files)
      [] action_name = "add_import" -> add_import(params, files)
      [] action_name = "remove_unused_import" -> remove_unused_import(params, files)
      [] action_name = "fix_test_assertion" -> fix_test_assertion(params, files)
      [] action_name = "add_dependency" -> add_dependency(params, files)
      [] action_name = "fix_yaml_syntax" -> fix_yaml_syntax(params, files)
      [] OTHER -> {Returns(Result("unknown_action", "fail", Absent,
                                  <<"Unknown action: ", action_name>>), files)}

(***************************************************************************)
(* The tool registry called on its own: every registered tool and an       *)
(* unregistered name, with well-formed and malformed parameter strings     *)
(***************************************************************************)
\* times the call under test is made, one after the other
MaxCalls == 2

ActionNames == known_actions \cup {"not_a_real_tool"}

ParamFiles == {"calculator.py", "nofile.py"}

ParamLines == {"1", "3", "5", "0", "99", "x"}

ParamFixes == {"add_colon", "add_blank_lines", "fix_indentation", "bogus"}

\* file:line:fix_type with every field drawn from good and bad values, and
\* strings with none, one, two or four fields
ParamStrings ==
    {<<f, ":", l, ":", t>> : f \in ParamFiles, l \in ParamLines, t \in ParamFixes}
    \cup {<<>>, <<"calculator.py">>, <<"nofile.py">>, <<":", ":">>,
          <<"calculator.py", ":", "import os">>, <<"calculator.py", ":">>,
          <<"calculator.py", ":", "1", ":", "a", ":", "6">>,
          <<"calculator.py", ":", "1", ":", "a", ":", "b", ":", "c">>}

\* the state of the run variables in a specification that does not run the loop
RunIdle(m, p) ==
    /\ mode = m
    /\ pc = p
    /\ agentKind = "ReActAgent"
    /\ workspace = "absent"
    /\ max_turns = 0
    /\ turn = 0
    /\ consecutive_errors = 0
    /\ observation_data = NoneObservation
    /\ reasoning = NoDecision
    /\ action_result = NoRecord
    /\ result = "none"
    /\ exit = "none"
    /\ log = ""
    /\ agent_result = NoVerdict
    /\ ci_result = NoVerdict
    /\ verdict = NoVerdict
    /\ last = "none"
    /\ nReason = 0
    /\ nAct = 0
    /\ nObserve = 0
    /\ agentFaults = 0
    /\ pipelinePassed = FALSE
    /\ recheckRan = FALSE
    /\ raised = "none"

\* the call under test, and the working directory it is made in: a fresh
\* baseline or the workspace of the syntax seed
ToolsInit ==
    /\ RunIdle("tools", "off")
    /\ SeedIdle
    /\ CwdIdle
    /\ MoreIdle
    /\ workspace_files \in Workspaces
    /\ tool_name \in ActionNames
    /\ tool_params \in ParamStrings
    /\ tool_outcome = NoOutcome
    /\ nCalls = 0

\* one call execute_action(action_name, params) in the working directory
ExecuteAction ==
    /\ mode = "tools"
    /\ nCalls < MaxCalls
    /\ \E o \in execute_action_on(tool_name, tool_params, workspace_files) :
          /\ tool_outcome' = IF o.kind = "return" THEN Return(o.value)
                              ELSE [kind |-> "raise", exc |-> o.exc]
          /\ workspace_files' = o.files
    /\ nCalls' = nCalls + 1
    /\ UNCHANGED <<runVars, seedVars, cwdVars, moreVars, tool_name, tool_params>>

ToolsNext == ExecuteAction

SpecTools == ToolsInit /\ [][ToolsNext]_vars

(***************************************************************************)
(* Properties of the tools                                                 *)
(***************************************************************************)
\* C17: every call of execute_action, for every registered tool, an
\* unregistered name and every parameter string, returns a result (no
\* exception leaves the tool) whose status is pass or fail; a fail result
\* has an error text and a pass result has no error field.
C17_ToolResultShape ==
    nCalls > 0 =>
        /\ tool_outcome.kind = "return"
        /\ tool_outcome.value.status \in {"pass", "fail"}
        /\ tool_outcome.value.status = "fail" => tool_outcome.value.error # Absent
        /\ tool_outcome.value.status = "pass" => tool_outcome.value.error = Absent

\* a patcher given a line that is not a number has returned a fail result
C17_Witness ==
    /\ nCalls > 0
    /\ tool_name = "fix_syntax_error"
    /\ tool_params = <<"calculator.py", ":", "x", ":", "add_colon">>
    /\ tool_outcome.value.status = "fail"
    /\ tool_outcome.value.error = <<"Error fixing syntax: ", "ValueError: invalid literal for int()">>

(***************************************************************************)
(* One orchestrate_ci_fix("seed_syntax") run on the files of the seeded    *)
(* workspace, with a reasoning engine that follows a script.  The steps    *)
(* of run_react_loop are those of Spec, with the tools of the registry     *)
(* acting on the files.                                                    *)
(***************************************************************************)
\* the engine proposes fix_syntax_error calculator.py:<line>:add_colon in
\* every turn, or in turn about with run_ci_pipeline
Scripts == [line : {"1", "3"}, verify : BOOLEAN]

\* the engine that proposes calculator.py:3:add_colon and nothing else
ClaimedEngine == [line |-> "3", verify |-> FALSE]

ProposedTool(script, t) ==
    IF script.verify /\ t % 2 = 0 THEN "run_ci_pipeline" ELSE "fix_syntax_error"

ProposedInput(script, t) ==
    IF script.verify /\ t % 2 = 0 THEN <<>>
    ELSE <<"calculator.py", ":", script.line, ":", "add_colon">>

\* a tool result as observe looks at it
AsToolResult(res) ==
    ToolResult(res.action, res.status,
               IF res.data = Absent THEN "" ELSE res.data[1],
               IF res.error = Absent THEN "" ELSE res.error[1])

\* what the pipeline says about the files
WorkspaceState(files) == IF run_all_checks(files) THEN "healthy" ELSE "broken"

\* ReActAgent.act in an existing workspace: the set of (Action Record,
\* files after) pairs
ReActAgent_act_on(decision, input, files) ==
    IF decision.error # ""
    THEN {[record |-> ActionRecord("error", "none", decision.error, NoResult), files |-> files]}
    ELSE IF decision.tool_call = "other"
    THEN {[record |-> ActionRecord("error", "unknown", "Action execution failed", NoResult),
           files |-> files]}
    ELSE IF decision.tool = ""
    THEN {[record |-> ActionRecord("error", "none", "No tool specified in reasoning", NoResult),
           files |-> files]}
    ELSE {[record |-> ActionRecord("success", decision.tool, "", AsToolResult(o.value)),
           files |-> o.files] : o \in execute_action_on(decision.tool, input, files)}

SeedInit ==
    /\ RunIdle("orchestrator", "idle")
    /\ ToolsIdle
    /\ CwdIdle
    /\ MoreIdle
    /\ llm_script \in Scripts

\* create_error_workspace("seed_syntax"): a fresh baseline, then the seed
Seed_create_error_workspace ==
    /\ mode = "orchestrator"
    /\ llm_script # NoScript
    /\ pc = "idle"
    /\ \/ /\ verdict' = Verdict("fail", "<absent>", "<absent>", "Workspace creation failed")
          /\ pc' = "done"
          /\ raised' = "provision"
          /\ UNCHANGED <<workspace, workspace_files>>
       \/ /\ workspace_files' = induce_errors(create_baseline)
          /\ workspace' = WorkspaceState(induce_errors(create_baseline))
          /\ pc' = "run_ci_agent"
          /\ UNCHANGED <<verdict, raised>>
    /\ UNCHANGED <<mode, agentKind, max_turns, turn, consecutive_errors, observation_data,
                   reasoning, action_result, result, exit, log, agent_result, ci_result,
                   last, nReason, nAct, nObserve, agentFaults, pipelinePassed, recheckRan,
                   tool_name, tool_params, tool_outcome, nCalls, seedVars, cwdVars, moreVars>>

\* entry of run_react_loop and the initial check on the files
Seed_InitialCheck ==
    /\ llm_script # NoScript
    /\ pc = "initial_check"
    /\ \E o \in run_ci_pipeline_on(workspace_files) :
          /\ observation_data' = InitialObservation(AsToolResult(o.value))
          /\ pipelinePassed' = (o.value.status = "pass")
          /\ IF AlreadyPassing(InitialObservation(AsToolResult(o.value)))
             THEN /\ turn' = turn
                  /\ ReturnFrom("already_passing", ReturnSuccess, "CI already passing!")
             ELSE NextTurn
    /\ UNCHANGED <<mode, agentKind, workspace, max_turns, consecutive_errors, reasoning,
                   action_result, agent_result, ci_result, verdict,
                   last, nReason, nAct, nObserve, agentFaults, recheckRan,
                   raised, auxVars>>

\* REASON: the scripted engine answers with a well-formed decision
Seed_Reason ==
    /\ llm_script # NoScript
    /\ pc = "reason"
    /\ reasoning' = Decision("dict", ProposedTool(llm_script, turn))
    /\ nReason' = nReason + 1
    /\ last' = "reason_ok"
    /\ pc' = "act"
    /\ log' = "Reason"
    /\ nAct' = 0
    /\ nObserve' = 0
    /\ UNCHANGED <<mode, agentKind, workspace, max_turns, turn, consecutive_errors,
                   observation_data, action_result, result, exit,
                   agent_result, ci_result, verdict, agentFaults, pipelinePassed, recheckRan,
                   raised, auxVars>>

\* ACT: the proposed tool runs on the files
Seed_Act ==
    /\ llm_script # NoScript
    /\ pc = "act"
    /\ \E o \in ReActAgent_act_on(reasoning, ProposedInput(llm_script, turn), workspace_files) :
          /\ nAct' = nAct + 1
          /\ workspace_files' = o.files
          /\ workspace' = WorkspaceState(o.files)
          /\ action_result' = o.record
          /\ pipelinePassed' =
                (pipelinePassed \/ (/\ o.record.status = "success"
                                    /\ o.record.result.action = "run_ci_pipeline"
                                    /\ o.record.result.status = "pass"))
          /\ IF o.record.status # "error"
             THEN /\ last' = "act_ok"
                  /\ pc' = "observe"
                  /\ log' = "Act"
                  /\ UNCHANGED <<turn, consecutive_errors, result, exit, agentFaults>>
             ELSE /\ last' = "act_fault"
                  /\ agentFaults' = CountFault(agentFaults)
                  /\ RecoverableError
    /\ UNCHANGED <<mode, agentKind, max_turns, observation_data, reasoning,
                   agent_result, ci_result, verdict, nReason, nObserve, recheckRan,
                   raised, tool_name, tool_params, tool_outcome, nCalls, seedVars, cwdVars, moreVars>>

\* OBSERVE and the checks that end the iteration
Seed_Observe ==
    /\ llm_script # NoScript
    /\ pc = "observe"
    /\ nObserve' = nObserve + 1
    /\ observation_data' = ReActAgent_observe(action_result)
    /\ last' = "observe_ok"
    /\ consecutive_errors' = ResetErrors(consecutive_errors)
    /\ IF CINowPasses(ReActAgent_observe(action_result))
       THEN /\ turn' = turn
            /\ ReturnFrom("ci_passes", ReturnSuccess, "SUCCESS! All CI checks now pass!")
       ELSE IF NoMoreActions(ReActAgent_observe(action_result))
       THEN /\ turn' = turn
            /\ ReturnFrom("break", ReturnMaxTurns, "Max turns reached")
       ELSE NextTurn
    /\ UNCHANGED <<mode, agentKind, workspace, max_turns, reasoning, action_result,
                   agent_result, ci_result, verdict, nReason, nAct, agentFaults,
                   pipelinePassed, recheckRan, raised, auxVars>>

SeedNext ==
    \/ Seed_create_error_workspace
    \/ run_ci_agent_call
    \/ Seed_InitialCheck
    \/ Seed_Reason
    \/ Seed_Act
    \/ Seed_Observe
    \/ run_ci_agent_return
    \/ Recheck

SpecSeed == SeedInit /\ [][SeedNext]_vars

\* C18: the run on the workspace of the syntax seed, driven by the engine
\* that proposes fix_syntax_error with calculator.py:3:add_colon, ends
\* (when nothing raised on the way) with a verdict of status pass and a
\* re-check result of status pass.
C18_SeededRunPasses ==
    (llm_script = ClaimedEngine /\ pc = "done" /\ raised = "none")
        => (verdict.status = "pass" /\ ci_result.status = "pass")

(***************************************************************************)
(* The working directory: src/src/helpers.py, run_react_loop and            *)
(* check_ci_status, for the runs a host starts in one process (app.py      *)
(* starts each run on a worker thread).  Every statement that reads or     *)
(* sets the working directory is a step of its own.                        *)
(***************************************************************************)
\* execute_tool_in_workspace calls of one run
MaxToolCalls == 2

\* the workspace directory of a run
Ws(t) == IF t = 1 THEN "/app/workspaces/test_a" ELSE "/app/workspaces/test_b"

\* a path that names no directory
Elsewhere == "<no such directory>"

\* the directory the relative path workspaces/test_<seed> of run t names
\* when it is resolved in directory d
Resolve(d, t) == IF d = Launch THEN Ws(t) ELSE Elsewhere

Exists(path) == path # Elsewhere

\* a finally clause without its chdir
RestoreCwd_skip(original, current) == current

\* finally: os.chdir(original_cwd)
RestoreCwd(original, current) == original

InTool(t) == thread_pc[t] \in {"tool_chdir", "tool_exec", "tool_finally"}

InLoop(t) ==
    \/ thread_pc[t] \in {"loop_chdir", "tool_enter", "loop_body", "loop_finally"}
    \/ InTool(t)

InCheck(t) == thread_pc[t] \in {"check_chdir", "check_exec", "check_finally"}

Finished(t) == thread_pc[t] \in {"start", "done"}

CwdInit ==
    /\ RunIdle("host", "off")
    /\ ToolsIdle
    /\ SeedIdle
    /\ MoreIdle
    /\ cwd = Launch
    /\ thread_pc = [t \in Runs |-> "start"]
    /\ original_cwd = [t \in Runs |-> NoFrames]
    /\ agent_ws = [t \in Runs |-> ""]
    /\ check_ws = [t \in Runs |-> ""]
    /\ tool_calls = [t \in Runs |-> 0]
    /\ entry_cwd = [t \in Runs |-> NoFrames]
    /\ tool_exit = [t \in Runs |-> "none"]
    /\ ran_in = [t \in Runs |-> "none"]

Goto(t, where) == thread_pc' = [thread_pc EXCEPT ![t] = where]

\* react_runner.py:20-25: agent.workspace_path, original_cwd = os.getcwd()
RunLoopEnter(t) ==
    /\ UNCHANGED <<runVars, toolVars, seedVars, moreVars>>
    /\ thread_pc[t] = "start"
    /\ agent_ws' = [agent_ws EXCEPT ![t] = Resolve(cwd, t)]
    /\ original_cwd' = [original_cwd EXCEPT ![t].loop = cwd]
    /\ entry_cwd' = [entry_cwd EXCEPT ![t].loop = cwd]
    /\ Goto(t, "loop_chdir")
    /\ UNCHANGED <<cwd, check_ws, tool_calls, tool_exit, ran_in>>

\* react_runner.py:27: os.chdir(workspace_path), which raises into the
\* except clause when the path names no directory
LoopChdir(t) ==
    /\ UNCHANGED <<runVars, toolVars, seedVars, moreVars>>
    /\ thread_pc[t] = "loop_chdir"
    /\ IF Exists(Resolve(cwd, t))
       THEN cwd' = Resolve(cwd, t) /\ Goto(t, "tool_enter")
       ELSE cwd' = cwd /\ Goto(t, "loop_finally")
    /\ UNCHANGED <<original_cwd, agent_ws, check_ws, tool_calls, entry_cwd, tool_exit, ran_in>>

\* helpers.py:18: original_cwd = os.getcwd()
ToolEnter(t) ==
    /\ UNCHANGED <<runVars, toolVars, seedVars, moreVars>>
    /\ thread_pc[t] = "tool_enter"
    /\ original_cwd' = [original_cwd EXCEPT ![t].tool = cwd]
    /\ entry_cwd' = [entry_cwd EXCEPT ![t].tool = cwd]
    /\ Goto(t, "tool_chdir")
    /\ UNCHANGED <<cwd, agent_ws, check_ws, tool_calls, tool_exit, ran_in>>

\* helpers.py:21-22: os.chdir(workspace_path)
ToolChdir(t) ==
    /\ UNCHANGED <<runVars, toolVars, seedVars, moreVars>>
    /\ thread_pc[t] = "tool_chdir"
    /\ IF Exists(agent_ws[t])
       THEN /\ cwd' = agent_ws[t]
            /\ Goto(t, "tool_exec")
            /\ UNCHANGED tool_exit
       ELSE /\ cwd' = cwd
            /\ Goto(t, "tool_finally")
            /\ tool_exit' = [tool_exit EXCEPT ![t] = "raise"]
    /\ UNCHANGED <<original_cwd, agent_ws, check_ws, tool_calls, entry_cwd, ran_in>>

\* helpers.py:24-26: the tool runs in the working directory of the
\* process and returns a pass result, a fail result, or the call raises
ToolExec(t) ==
    /\ UNCHANGED <<runVars, toolVars, seedVars, moreVars>>
    /\ thread_pc[t] = "tool_exec"
    /\ \E how \in {"pass", "fail", "raise"} : tool_exit' = [tool_exit EXCEPT ![t] = how]
    /\ ran_in' = [ran_in EXCEPT ![t] = cwd]
    /\ Goto(t, "tool_finally")
    /\ UNCHANGED <<cwd, original_cwd, agent_ws, check_ws, tool_calls, entry_cwd>>

\* helpers.py:27-28: finally: os.chdir(original_cwd)
ToolFinally(t) ==
    /\ UNCHANGED <<runVars, toolVars, seedVars, moreVars>>
    /\ thread_pc[t] = "tool_finally"
    /\ cwd' = RestoreCwd(original_cwd[t].tool, cwd)
    /\ tool_calls' = [tool_calls EXCEPT ![t] = tool_calls[t] + 1]
    /\ Goto(t, "loop_body")
    /\ UNCHANGED <<original_cwd, agent_ws, check_ws, entry_cwd, tool_exit, ran_in>>

\* the loop of run_react_loop: another act (which calls the helper when
\* agent.workspace_path exists), or a return statement; an initial check
\* that raised returns at once
LoopBody(t) ==
    /\ UNCHANGED <<runVars, toolVars, seedVars, moreVars>>
    /\ thread_pc[t] = "loop_body"
    /\ \/ /\ tool_calls[t] < MaxToolCalls
          /\ Exists(agent_ws[t])
          /\ ~(tool_calls[t] = 1 /\ tool_exit[t] = "raise")
          /\ Goto(t, "tool_enter")
       \/ Goto(t, "loop_finally")
    /\ UNCHANGED <<cwd, original_cwd, agent_ws, check_ws, tool_calls, entry_cwd, tool_exit,
                   ran_in>>

\* react_runner.py:173-177: finally: os.chdir(original_cwd); then
\* orchestrate_ci_fix returns a failed agent result or goes on to the re-check
LoopFinally(t) ==
    /\ UNCHANGED <<runVars, toolVars, seedVars, moreVars>>
    /\ thread_pc[t] = "loop_finally"
    /\ cwd' = RestoreCwd(original_cwd[t].loop, cwd)
    /\ \/ Goto(t, "check_enter")
       \/ Goto(t, "done")
    /\ UNCHANGED <<original_cwd, agent_ws, check_ws, tool_calls, entry_cwd, tool_exit, ran_in>>

\* orchestrator.py:106-117: original_cwd = os.getcwd(), resolve the path,
\* return at once when the pipeline file is missing
CheckEnter(t) ==
    /\ UNCHANGED <<runVars, toolVars, seedVars, moreVars>>
    /\ thread_pc[t] = "check_enter"
    /\ original_cwd' = [original_cwd EXCEPT ![t].check = cwd]
    /\ entry_cwd' = [entry_cwd EXCEPT ![t].check = cwd]
    /\ check_ws' = [check_ws EXCEPT ![t] = Resolve(cwd, t)]
    /\ IF Exists(Resolve(cwd, t)) THEN Goto(t, "check_chdir") ELSE Goto(t, "check_finally")
    /\ UNCHANGED <<cwd, agent_ws, tool_calls, tool_exit, ran_in>>

\* orchestrator.py:119: os.chdir(workspace_path)
CheckChdir(t) ==
    /\ UNCHANGED <<runVars, toolVars, seedVars, moreVars>>
    /\ thread_pc[t] = "check_chdir"
    /\ cwd' = check_ws[t]
    /\ Goto(t, "check_exec")
    /\ UNCHANGED <<original_cwd, agent_ws, check_ws, tool_calls, entry_cwd, tool_exit, ran_in>>

\* orchestrator.py:121-136: the pipeline runs and returns, or raises into
\* the except clause
CheckExec(t) ==
    /\ UNCHANGED <<runVars, toolVars, seedVars, moreVars>>
    /\ thread_pc[t] = "check_exec"
    /\ Goto(t, "check_finally")
    /\ UNCHANGED <<cwd, original_cwd, agent_ws, check_ws, tool_calls, entry_cwd, tool_exit,
                   ran_in>>

\* orchestrator.py:138-139: finally: os.chdir(original_cwd)
CheckFinally(t) ==
    /\ UNCHANGED <<runVars, toolVars, seedVars, moreVars>>
    /\ thread_pc[t] = "check_finally"
    /\ cwd' = RestoreCwd(original_cwd[t].check, cwd)
    /\ Goto(t, "done")
    /\ UNCHANGED <<original_cwd, agent_ws, check_ws, tool_calls, entry_cwd, tool_exit, ran_in>>

\* a run on its own: no other run is under way
Alone(t) == \A u \in Runs \ {t} : Finished(u)

\* a host with one thread of control: a run starts when no other is under way
SerialNext ==
    \/ \E t \in Runs : Alone(t) /\ RunLoopEnter(t)
    \/ \E t \in Runs : Alone(t) /\ LoopChdir(t)
    \/ \E t \in Runs : Alone(t) /\ ToolEnter(t)
    \/ \E t \in Runs : Alone(t) /\ ToolChdir(t)
    \/ \E t \in Runs : Alone(t) /\ ToolExec(t)
    \/ \E t \in Runs : Alone(t) /\ ToolFinally(t)
    \/ \E t \in Runs : Alone(t) /\ LoopBody(t)
    \/ \E t \in Runs : Alone(t) /\ LoopFinally(t)
    \/ \E t \in Runs : Alone(t) /\ CheckEnter(t)
    \/ \E t \in Runs : Alone(t) /\ CheckChdir(t)
    \/ \E t \in Runs : Alone(t) /\ CheckExec(t)
    \/ \E t \in Runs : Alone(t) /\ CheckFinally(t)

SpecSerial == CwdInit /\ [][SerialNext]_vars

\* a host that starts each run on a worker thread of its own
\* (RealTimeCapture.run_with_capture): the steps of the runs interleave
ThreadsNext ==
    \/ \E t \in Runs : RunLoopEnter(t)
    \/ \E t \in Runs : LoopChdir(t)
    \/ \E t \in Runs : ToolEnter(t)
    \/ \E t \in Runs : ToolChdir(t)
    \/ \E t \in Runs : ToolExec(t)
    \/ \E t \in Runs : ToolFinally(t)
    \/ \E t \in Runs : LoopBody(t)
    \/ \E t \in Runs : LoopFinally(t)
    \/ \E t \in Runs : CheckEnter(t)
    \/ \E t \in Runs : CheckChdir(t)
    \/ \E t \in Runs : CheckExec(t)
    \/ \E t \in Runs : CheckFinally(t)

SpecThreads == CwdInit /\ [][ThreadsNext]_vars

(***************************************************************************)
(* Properties of the working directory                                     *)
(***************************************************************************)
\* C19: when execute_tool_in_workspace, run_react_loop or check_ci_status
\* is left, on whatever path (the tool passed, failed or raised, chdir
\* raised, the pipeline file was missing), the working directory of the
\* process is the directory that was current when the function was called.
C19_CwdRestored ==
    [][\A t \in Runs :
          /\ (InTool(t) /\ ~InTool(t)') => cwd' = entry_cwd[t].tool
          /\ (InLoop(t) /\ ~InLoop(t)') => cwd' = entry_cwd[t].loop
          /\ (InCheck(t) /\ ~InCheck(t)') => cwd' = entry_cwd[t].check]_vars

\* a run has left all three functions, its last tool call raised inside
\* the workspace, and the process is back in the launch directory
C19_Witness ==
    /\ thread_pc[1] = "done"
    /\ tool_calls[1] = 2
    /\ tool_exit[1] = "raise"
    /\ ran_in[1] = Ws(1)
    /\ check_ws[1] = Ws(1)
    /\ entry_cwd[1] = [loop |-> Launch, tool |-> Ws(1), check |-> Launch]
    /\ cwd = Launch

\* C20: while a tool of a run executes, the working directory of the
\* process is the workspace of that run, and when both runs have ended
\* the process is not left in a workspace directory; this with the two
\* runs on worker threads of one process.
C20_ToolsRunInOwnWorkspace ==
    /\ \A t \in Runs : thread_pc[t] = "tool_exec" => cwd = Ws(t)
    /\ (\A t \in Runs : thread_pc[t] = "done") => cwd \notin {Ws(t) : t \in Runs}

(***************************************************************************)
(* The model-response cache (src/src/llm.py) under the scenario runs of    *)
(* one host process: each run rebuilds its workspace, changes into it,     *)
(* asks the model, and changes back.                                       *)
(***************************************************************************)
\* model calls issued for one fingerprint
MaxApiCalls == 2

\* what the model may answer
Responses == {"fix line 1", "fix line 3"}

\* llm.py:13-17: the cache file of a fingerprint, under the directory that
\* is current when the call is made
\* (named with a leading underscore in the source)
get_cache_file(current, input_hash) == [dir |-> current, key |-> input_hash]

\* llm.py:64-68: the entry of cache_key in its cache file, if there is one
CacheLookup(files, current, cache_key) ==
    {e \in files : e.file = get_cache_file(current, cache_key)}

\* llm.py:119-124: cache_data[cache_key] = content, written back
CacheStore(files, current, cache_key, content) ==
    {e \in files : e.file # get_cache_file(current, cache_key)}
        \cup {[file |-> get_cache_file(current, cache_key), response |-> content]}

\* shutil.rmtree(workspace_path): every file below the directory goes
rmtree(files, path) == {e \in files : e.file.dir # path}

CacheInit ==
    /\ RunIdle("host", "off")
    /\ ToolsIdle
    /\ SeedIdle
    /\ CwdIdle
    /\ ProcIdle
    /\ ObsIdle
    /\ FlowIdle
    /\ cache_files = {}
    /\ scenario_pc = "prompt"
    /\ scenario = ""
    /\ llm_outcome = NoCall
    /\ api_calls = [k \in Fingerprints |-> 0]
    /\ completed = {}

cacheFrame == <<runVars, toolVars, seedVars, procVars, obsVars, flowVars, thread_pc, original_cwd, agent_ws, check_ws,
                tool_calls, entry_cwd, tool_exit, ran_in>>

\* orchestrator.py:54-84: the workspace of the seed is removed and copied
\* afresh from the baseline
Cache_create_error_workspace ==
    /\ scenario_pc = "prompt"
    /\ \E seed \in Seeds :
          /\ scenario' = seed
          /\ cache_files' = rmtree(cache_files, WorkspaceOf(seed))
    /\ scenario_pc' = "created"
    /\ UNCHANGED <<cwd, llm_outcome, api_calls, completed, cacheFrame>>

\* react_runner.py:25-27: os.chdir(workspace_path)
Cache_LoopChdir ==
    /\ scenario_pc = "created"
    /\ cwd' = WorkspaceOf(scenario)
    /\ scenario_pc' = "loop"
    /\ UNCHANGED <<cache_files, scenario, llm_outcome, api_calls, completed, cacheFrame>>

\* llm.py:46-131 as called by reason: the stored response when the cache
\* file under the current directory has one; otherwise a model call, whose
\* answer is stored, or whose failure is returned as a text
call_openai_chat(observation) ==
    LET req == Request(observation)
        cache_key == get_input_hash(req.prompt, req.system_msg, req.model, req.max_tokens)
        hit == CacheLookup(cache_files, cwd, cache_key)
    IN  IF hit # {}
        THEN /\ \E e \in hit :
                    llm_outcome' = [key |-> cache_key, source |-> "cache",
                                    response |-> e.response]
             /\ UNCHANGED <<cache_files, api_calls, completed>>
        ELSE /\ api_calls[cache_key] < MaxApiCalls
             /\ api_calls' = [api_calls EXCEPT ![cache_key] = @ + 1]
             /\ \/ \E content \in Responses :
                      /\ cache_files' = CacheStore(cache_files, cwd, cache_key, content)
                      /\ completed' = completed \cup {cache_key}
                      /\ llm_outcome' = [key |-> cache_key, source |-> "api",
                                         response |-> content]
                \/ /\ llm_outcome' = [key |-> cache_key, source |-> "error",
                                      response |-> "Error calling API: "]
                   /\ UNCHANGED <<cache_files, completed>>

\* ci_agent.py:22-37: reason on the observation of the turn
Cache_reason ==
    /\ scenario_pc = "loop"
    /\ \E observation \in ObservationTexts : call_openai_chat(observation)
    /\ UNCHANGED <<cwd, scenario_pc, scenario, cacheFrame>>

\* react_runner.py:176-177: finally: os.chdir(original_cwd)
Cache_LoopFinally ==
    /\ scenario_pc = "loop"
    /\ cwd' = Launch
    /\ scenario_pc' = "prompt"
    /\ UNCHANGED <<cache_files, scenario, llm_outcome, api_calls, completed, cacheFrame>>

CacheNext ==
    \/ Cache_create_error_workspace
    \/ Cache_LoopChdir
    \/ Cache_reason
    \/ Cache_LoopFinally

SpecCache == CacheInit /\ [][CacheNext]_vars

\* C21: once a model call for a request has completed successfully, no
\* later call with the same request in the same process, in this or a
\* later scenario run, issues the model call again
C21_StoredResponseReused ==
    [][\A k \in Fingerprints : k \in completed => api_calls'[k] = api_calls[k]]_vars

(***************************************************************************)
(* The tools that wait for an external process (ci_runner.py and           *)
(* file_analyzer.py): subprocess.run returns when the process has exited   *)
(* and raises TimeoutExpired when its timeout, if it was given one, has    *)
(* passed.  Time advances in steps of TickSeconds.                         *)
(***************************************************************************)
\* tool calls made one after the other
MaxProcCalls == 4

\* ci_runner.py:17: timeout=60 of the pytest fallback
pytest_timeout == 60

\* the step of the clock: the largest one that lands on both timeouts
TickSeconds == pytest_timeout

\* ci_runner.py:33: timeout=120 of python3 ci_pipeline.py
pipeline_timeout == 120

\* file_analyzer.py:20-23: subprocess.run without a timeout argument
NoTimeout == -1

ProcessTools == {"run_ci_pipeline", "analyze_test_failure"}

\* the timeout argument of the subprocess.run call the tool makes
TimeoutOf(tool, script_exists) ==
    IF tool = "run_ci_pipeline"
    THEN IF script_exists THEN pipeline_timeout ELSE pytest_timeout
    ELSE NoTimeout

\* what the tool returns for an exit code of its process
ResultOfExit(tool, script_exists, returncode) ==
    IF tool = "run_ci_pipeline"
    THEN IF returncode = 0
         THEN ToolResult("run_ci_pipeline", "pass", "<absent>", "<absent>")
         ELSE ToolResult("run_ci_pipeline", "fail", "<absent>",
                         IF script_exists THEN "CI pipeline failed" ELSE "Test failures:")
    ELSE IF returncode = 0
         THEN ToolResult("analyze_test_failure", "pass", "output", "<absent>")
         ELSE ToolResult("analyze_test_failure", "fail", "<absent>", "output")

\* except Exception: the process could not be started
ResultOfException(tool) ==
    IF tool = "run_ci_pipeline"
    THEN ToolResult("run_ci_pipeline", "fail", "<absent>", "CI error - ")
    ELSE ToolResult("analyze_test_failure", "fail", "<absent>", "Error analyzing test: ")

\* ci_runner.py:45-50: except subprocess.TimeoutExpired
ResultOfTimeout == ToolResult("run_ci_pipeline", "fail", "<absent>", "CI pipeline timed out")

ProcInit ==
    /\ RunIdle("tool", "off")
    /\ ToolsIdle
    /\ SeedIdle
    /\ CwdIdle
    /\ CacheIdle
    /\ ObsIdle
    /\ FlowIdle
    /\ proc_tool = ""
    /\ proc_script = FALSE
    /\ proc_pc = "idle"
    /\ proc_status = "none"
    /\ proc_elapsed = 0
    /\ proc_result = NoResult
    /\ proc_calls = 0

procFrame == <<runVars, toolVars, seedVars, cwdVars, cacheVars, obsVars, flowVars>>

\* the tool is called and starts its process, or fails to start it
Proc_call ==
    /\ proc_pc = "idle"
    /\ proc_calls < MaxProcCalls
    /\ proc_calls' = proc_calls + 1
    /\ \E tool \in ProcessTools, script_exists \in BOOLEAN :
          /\ proc_tool' = tool
          /\ proc_script' = (script_exists /\ tool = "run_ci_pipeline")
          /\ \/ /\ proc_pc' = "waiting"
                /\ proc_status' = "running"
                /\ proc_result' = NoResult
             \/ /\ proc_pc' = "idle"
                /\ proc_status' = "none"
                /\ proc_result' = ResultOfException(tool)
    /\ proc_elapsed' = 0
    /\ UNCHANGED procFrame

\* time passes while subprocess.run waits with a timeout; without one it
\* blocks in wait() and reads no clock
Proc_tick ==
    /\ proc_pc = "waiting"
    /\ proc_status = "running"
    /\ TimeoutOf(proc_tool, proc_script) # NoTimeout
    /\ proc_elapsed < TimeoutOf(proc_tool, proc_script)
    /\ proc_elapsed' = proc_elapsed + TickSeconds
    /\ UNCHANGED <<proc_tool, proc_script, proc_pc, proc_status, proc_result, proc_calls,
                   procFrame>>

\* the process finishes
Proc_exit ==
    /\ proc_pc = "waiting"
    /\ proc_status = "running"
    /\ proc_status' \in {"exited 0", "exited 1"}
    /\ UNCHANGED <<proc_tool, proc_script, proc_pc, proc_elapsed, proc_result, proc_calls,
                   procFrame>>

\* subprocess.run returns the finished process and the tool its result
Proc_return ==
    /\ proc_pc = "waiting"
    /\ proc_status \in {"exited 0", "exited 1"}
    /\ proc_result' = ResultOfExit(proc_tool, proc_script,
                                   IF proc_status = "exited 0" THEN 0 ELSE 1)
    /\ proc_pc' = "idle"
    /\ UNCHANGED <<proc_tool, proc_script, proc_status, proc_elapsed, proc_calls, procFrame>>

\* subprocess.run kills the process and raises TimeoutExpired
Proc_timeout ==
    /\ proc_pc = "waiting"
    /\ proc_status = "running"
    /\ TimeoutOf(proc_tool, proc_script) # NoTimeout
    /\ proc_elapsed >= TimeoutOf(proc_tool, proc_script)
    /\ proc_status' = "killed"
    /\ proc_result' = ResultOfTimeout
    /\ proc_pc' = "idle"
    /\ UNCHANGED <<proc_tool, proc_script, proc_elapsed, proc_calls, procFrame>>

ProcNext ==
    \/ Proc_call
    \/ Proc_tick
    \/ Proc_exit
    \/ Proc_return
    \/ Proc_timeout

\* time passes and subprocess.run returns once it can; nothing makes the
\* process finish
SpecProcess ==
    /\ ProcInit
    /\ [][ProcNext]_vars
    /\ WF_vars(Proc_tick)
    /\ WF_vars(Proc_return)
    /\ WF_vars(Proc_timeout)

\* C22: every call of a tool that launches an external process returns,
\* also when the process never finishes
C22_ProcessToolsReturn == (proc_pc = "waiting") ~> (proc_pc = "idle")

(***************************************************************************)
(* observe on the error text of a failed pipeline check                    *)
(* (ci_agent.py:154-201).  An error text is the prefix the tool builds     *)
(* followed by segments of the captured output: plain text without         *)
(* braces, or a run of text from a "{" to a "}" which is a JSON object     *)
(* or is not.  Of a JSON object only its checks member is kept.            *)
(***************************************************************************)
\* entries of a checks list
MaxChecks == 3

CheckNames == {"syntax", "lint", "tests"}

\* the error run_all_checks stores with a failing check
ErrorOf(test) ==
    CASE test = "syntax" -> "Syntax error in calculator.py"
      [] test = "lint" -> "Linting errors"
      [] test = "tests" -> "Test failures"
      [] OTHER -> "<absent>"

\* ci_pipeline.py:31-35: {"test": ..., "status": ...} and, on fail, "error"
CheckRecord(test, passed) ==
    [type |-> "object", test |-> test, status |-> IF passed THEN "pass" ELSE "fail",
     error |-> IF passed THEN "<absent>" ELSE ErrorOf(test)]

\* a list entry that is not an object
NumberEntry == [type |-> "number", test |-> "", status |-> "", error |-> ""]

JsonValue(type, items) == [type |-> type, items |-> items]

\* the values of a checks member: missing, null, a number, a string, an
\* object, or a list of entries
NonLists == {JsonValue(t, <<>>) : t \in {"absent", "null", "number", "string", "object"}}

Entries == {CheckRecord(test, passed) : test \in CheckNames, passed \in BOOLEAN}
              \cup {NumberEntry}

Lists == {JsonValue("list", items) :
             items \in UNION {[1..n -> Entries] : n \in 0..MaxChecks}}

PlainText == [kind |-> "text", wellformed |-> FALSE, checks |-> JsonValue("absent", <<>>)]

\* text from a "{" to a "}" that json.loads rejects
Malformed == [kind |-> "braces", wellformed |-> FALSE, checks |-> JsonValue("absent", <<>>)]

JsonObject(checks) == [kind |-> "braces", wellformed |-> TRUE, checks |-> checks]

ErrorText(prefix, body) == [prefix |-> prefix, body |-> body]

NoText == ErrorText("", <<>>)

\* ci_pipeline.py:15-46: the checks in the order they are run; the workspace
\* has no YAML file and no secret
PipelineReport(files) ==
    JsonValue("list",
        <<CheckRecord("syntax", check_syntax(files)),
          CheckRecord("lint", check_lint(files)),
          CheckRecord("tests", check_tests(files)),
          CheckRecord("dependencies", check_dependencies(files)),
          CheckRecord("config", TRUE),
          CheckRecord("security", TRUE)>>)

\* ci_runner.py:39-43 on the output ci_pipeline.py prints (ci_pipeline.py:178)
PipelineFailed(report) == ErrorText("CI pipeline failed\n", <<JsonObject(report)>>)

\* re.search(r'\{.*\}', error_msg, re.DOTALL): from the first "{" to the last "}"
re_search(body) ==
    LET braces == {i \in 1..Len(body) : body[i].kind = "braces"}
    IN  IF braces = {} THEN <<>>
        ELSE SubSeq(body, CHOOSE i \in braces : \A j \in braces : i <= j,
                          CHOOSE i \in braces : \A j \in braces : i >= j)

\* json.loads of the match: one well-formed object, or JSONDecodeError
json_loads(match) ==
    IF Len(match) = 1 /\ match[1].wellformed
    THEN [exc |-> "none", checks |-> match[1].checks]
    ELSE [exc |-> "JSONDecodeError", checks |-> JsonValue("absent", <<>>)]

\* [c for c in ci_result["checks"] if c.get("status") == "fail"]: iterating
\* null or a number raises TypeError; an element without a get method, as
\* the characters of a string or the keys of an object are, AttributeError
FailedChecks(checks) ==
    CASE checks.type \in {"null", "number"} -> [exc |-> "TypeError", list |-> <<>>]
      [] checks.type \in {"string", "object"} -> [exc |-> "AttributeError", list |-> <<>>]
      [] OTHER ->
           IF \E i \in 1..Len(checks.items) : checks.items[i].type # "object"
           THEN [exc |-> "AttributeError", list |-> <<>>]
           ELSE [exc |-> "none",
                 list |-> SelectSeq(checks.items, LAMBDA c : c.status = "fail")]

\* the last of the failing checks
FirstFailure_last(failed_checks) == failed_checks[Len(failed_checks)]

\* first_failure = failed_checks[0]
FirstFailure(failed_checks) == failed_checks[1]

ObservationText(form, error_msg, test, error) ==
    [form |-> form, error_msg |-> error_msg, test |-> test, error |-> error]

\* ci_agent.py:163-180: the observation text for a failed pipeline, or the
\* exception that leaves the inner try block
PipelineFailureText(error_msg) ==
    LET raw == [exc |-> "none",
                text |-> ObservationText("CI pipeline failed: ", error_msg, "", "")]
        json_match == re_search(error_msg.body)
        report == json_loads(json_match)
        failed == FailedChecks(report.checks)
    IN  IF json_match = <<>> THEN raw
        ELSE IF report.exc # "none" THEN raw
        ELSE IF report.checks.type = "absent" THEN raw
        ELSE IF failed.exc \in {"JSONDecodeError", "KeyError", "IndexError", "AttributeError"}
        THEN raw
        ELSE IF failed.exc # "none" THEN [exc |-> failed.exc, text |-> raw.text]
        ELSE IF failed.list = <<>> THEN raw
        ELSE [exc |-> "none",
              text |-> ObservationText("CI pipeline failed. First issue: ", NoText,
                           FirstFailure(failed.list).test,
                           IF FirstFailure(failed.list).error = "<absent>"
                           THEN "No details" ELSE FirstFailure(failed.list).error)]

\* ci_agent.py:101-201 on an Action Record whose error is an error text
ReActAgent_observe_on(record) ==
    IF record.status = "error"
    THEN Observation(ObservationText("Error occurred: ", NoText, "", record.error),
                     "unknown", TRUE)
    ELSE IF record.result.status = "pass"
    THEN IF record.result.action = "run_ci_pipeline"
         THEN Observation(ObservationText("CI pipeline passed - all checks successful!",
                                          NoText, "", ""), "pass", FALSE)
         ELSE Observation(ObservationText(" completed successfully.", NoText, "", ""),
                          "unknown", TRUE)
    ELSE IF record.result.action = "run_ci_pipeline"
         THEN LET text == PipelineFailureText(record.result.error)
              IN  IF text.exc = "none"
                  THEN Observation(text.text, "fail", TRUE)
                  ELSE Observation(ObservationText("Observation failed: ", NoText, "",
                                                   text.exc), "unknown", TRUE)
         ELSE Observation(ObservationText(" failed: ", record.result.error, "", ""),
                          "unknown", TRUE)

\* the error texts of a failed pipeline check
ErrorTexts ==
    {ErrorText("CI pipeline timed out", <<>>), ErrorText("CI error - ", <<>>)}
    \cup {PipelineFailed(checks) : checks \in NonLists \cup Lists}
    \cup {PipelineFailed(PipelineReport(induce_errors(create_baseline)))}
    \cup {ErrorText("Test failures:\n", body) :
             body \in UNION {[1..n -> {PlainText, Malformed,
                                       JsonObject(JsonValue("list",
                                           <<CheckRecord("tests", FALSE)>>))}] :
                                n \in 0..2}}

\* the Action Records act hands to observe
ObserveRecords ==
    {ActionRecord("error", "none", "No tool specified in reasoning", NoResult),
     ActionRecord("success", "run_ci_pipeline", "",
                  [action |-> "run_ci_pipeline", status |-> "pass", data |-> "",
                   error |-> NoText]),
     ActionRecord("success", "fix_syntax_error", "",
                  [action |-> "fix_syntax_error", status |-> "fail", data |-> "",
                   error |-> ErrorText("Error fixing syntax: ", <<>>)])}
    \cup {ActionRecord("success", "run_ci_pipeline", "",
                       [action |-> "run_ci_pipeline", status |-> "fail", data |-> "",
                        error |-> e]) : e \in ErrorTexts}

ObserveInit ==
    /\ RunIdle("observe", "off")
    /\ ToolsIdle
    /\ SeedIdle
    /\ CwdIdle
    /\ CacheIdle
    /\ ProcIdle
    /\ FlowIdle
    /\ obs_record \in ObserveRecords
    /\ obs_result = NoneObservation
    /\ obs_calls = 0

\* one call agent.observe(action_result)
Observe_call ==
    /\ mode = "observe"
    /\ obs_calls < MaxCalls
    /\ obs_result' = ReActAgent_observe_on(obs_record)
    /\ obs_calls' = obs_calls + 1
    /\ UNCHANGED <<obs_record, runVars, toolVars, seedVars, cwdVars, cacheVars, procVars,
                   flowVars>>

ObserveNext == Observe_call

SpecObserve == ObserveInit /\ [][ObserveNext]_vars

IsFailedPipelineRecord(record) ==
    /\ record.status = "success"
    /\ record.result.action = "run_ci_pipeline"
    /\ record.result.status = "fail"

\* C23: for a successful Action Record of a failed run_ci_pipeline, whatever
\* the error text holds, observe returns ci_status fail and
\* next_action_needed true, with the raw error text unless it names a
\* failing check
C23_FailedPipelineObserved ==
    (obs_calls > 0 /\ IsFailedPipelineRecord(obs_record)) =>
        /\ obs_result.ci_status = "fail"
        /\ obs_result.next_action_needed
        /\ \/ obs_result.observation.form = "CI pipeline failed. First issue: "
           \/ /\ obs_result.observation.form = "CI pipeline failed: "
              /\ obs_result.observation.error_msg = obs_record.result.error

\* the error text is the one run_ci_pipeline builds from a report whose
\* checks are check records, at least one of them failing
EmbedsReport(record) ==
    /\ IsFailedPipelineRecord(record)
    /\ record.result.error.prefix = "CI pipeline failed\n"
    /\ Len(record.result.error.body) = 1
    /\ record.result.error.body[1].wellformed
    /\ record.result.error.body[1].checks.type = "list"
    /\ \A i \in 1..Len(record.result.error.body[1].checks.items) :
          record.result.error.body[1].checks.items[i].type = "object"
    /\ \E i \in 1..Len(record.result.error.body[1].checks.items) :
          record.result.error.body[1].checks.items[i].status = "fail"

\* C24: when the error text embeds a pipeline report, the observation names
\* the test and the error of the first entry of checks, in list order,
\* whose status is fail, and of no later one
C24_FirstFailureWins ==
    (obs_calls > 0 /\ EmbedsReport(obs_record)) =>
        LET items == obs_record.result.error.body[1].checks.items
            first == CHOOSE i \in 1..Len(items) :
                        /\ items[i].status = "fail"
                        /\ \A j \in 1..(i - 1) : items[j].status # "fail"
        IN  /\ obs_result.observation.form = "CI pipeline failed. First issue: "
            /\ obs_result.observation.test = items[first].test
            /\ obs_result.observation.error = items[first].error
            /\ obs_result.ci_status = "fail"

\* a report whose first check passes and whose second and third fail has
\* been observed, and the second is named
C24_Witness ==
    /\ obs_calls > 0
    /\ obs_record.status = "success"
    /\ obs_record.result.error =
          PipelineFailed(JsonValue("list", <<CheckRecord("syntax", TRUE),
                                            CheckRecord("lint", FALSE),
                                            CheckRecord("tests", FALSE)>>))
    /\ obs_result.observation.test = "lint"
    /\ obs_result.observation.error = "Linting errors"

(***************************************************************************)
(* Properties of repeated tool calls (SpecTools makes the same call        *)
(* MaxCalls times)                                                         *)
(***************************************************************************)
\* the call is fix_syntax_error with file:line:fix_type
IsSyntaxFix(fix_type) ==
    /\ tool_name = "fix_syntax_error"
    /\ Len(tool_params) = 5
    /\ tool_params[5] = fix_type

\* C25: a second fix_syntax_error call with the same path:line:add_blank_lines
\* parameter leaves the file as the first call left it
C25_BlankLinesIdempotent ==
    [][(nCalls = 1 /\ IsSyntaxFix("add_blank_lines") /\ tool_outcome.value.status = "pass")
          => workspace_files' = workspace_files]_vars

\* C26: a second add_import or add_dependency call with the same parameter
\* leaves the target file as the first call left it
C26_AppendersIdempotent ==
    [][(nCalls = 1 /\ tool_name \in {"add_import", "add_dependency"}
           /\ tool_outcome.value.status = "pass")
          => workspace_files' = workspace_files]_vars

\* the first "#" of a line, and the last ")" before it (0 when there is none)
CommentStart(line) == Find(line, "#")

LastParenBeforeComment(line) == RFind(SubSeq(line, 1, CommentStart(line) - 1), ")")

\* a function-definition line with a closing parenthesis and a trailing comment
IsDefWithComment(line) ==
    /\ LStrip(line) # <<>>
    /\ Head(LStrip(line)) = "def "
    /\ CommentStart(line) # 0
    /\ LastParenBeforeComment(line) # 0

\* the line with ":" right after that parenthesis, put there if it is not
ColonAfterParen(line) ==
    LET p == LastParenBeforeComment(line)
    IN  IF line[p + 1] = ":" THEN line
        ELSE SubSeq(line, 1, p) \o <<":">> \o SubSeq(line, p + 1, Len(line))

\* the line a file:line:fix_type parameter addresses in the file, for a
\* line number from 1 to the length of the file
TargetLine ==
    IF /\ Len(tool_params) = 5
       /\ tool_params[1] \in DOMAIN workspace_files
       /\ tool_params[3] \in DOMAIN IntLiterals
       /\ IntLiterals[tool_params[3]] \in
             1..Len(readlines(workspace_files[tool_params[1]]))
    THEN IntLiterals[tool_params[3]]
    ELSE 0

\* C27: add_colon on a def line with a closing parenthesis and a trailing
\* comment puts ":" right after the last ")" before the comment, keeps the
\* comment and every other line, and a second call changes nothing
C27_ColonBeforeComment ==
    [][(/\ IsSyntaxFix("add_colon")
        /\ TargetLine # 0
        /\ IsDefWithComment(readlines(workspace_files[tool_params[1]])[TargetLine]))
          => LET lines == readlines(workspace_files[tool_params[1]])
             IN  /\ tool_outcome'.value.status = "pass"
                 /\ readlines(workspace_files'[tool_params[1]]) =
                       [lines EXCEPT ![TargetLine] = ColonAfterParen(lines[TargetLine])]
                 /\ nCalls = 1 => workspace_files' = workspace_files]_vars

\* the tools that take file:line:...
LinePatchers == {"fix_syntax_error", "fix_test_assertion", "fix_yaml_syntax"}

\* texts that are an optional sign and digits
Numeric == {"-1", "0", "1", "2", "3", "4", "5", "99"}

\* the colon-separated parts of a parameter string: one more than its colons
Parts(params) == Count(params, ":") + 1

\* the text between the first and the second colon
LinePart(params) ==
    LET rest == SubSeq(params, Find(params, ":") + 1, Len(params))
    IN  BeforeFirst(rest, ":")

\* a parameter string with the wrong number of parts or a line that is not a number
MalformedParams(name, params) ==
    \/ Parts(params) \notin (IF name = "fix_test_assertion" THEN {3, 4} ELSE {3})
    \/ Len(LinePart(params)) # 1
    \/ LinePart(params)[1] \notin Numeric

\* C28: a line-targeted patcher given a malformed parameter string returns
\* status fail with an error text and leaves the files as they were
C28_MalformedFailsCleanly ==
    [][(tool_name \in LinePatchers /\ MalformedParams(tool_name, tool_params))
          => /\ tool_outcome'.kind = "return"
             /\ tool_outcome'.value.status = "fail"
             /\ tool_outcome'.value.error # Absent
             /\ workspace_files' = workspace_files]_vars

\* fix_test_assertion has been called with five parts, and fix_syntax_error
\* with a line that is not a number
C28_Witness ==
    /\ nCalls > 0
    /\ \/ /\ tool_name = "fix_test_assertion"
          /\ tool_params = <<"calculator.py", ":", "1", ":", "a", ":", "b", ":", "c">>
          /\ tool_outcome.value.error =
                <<"Error fixing test: ", "ValueError: Expected 3 or 4 parts">>
       \/ /\ tool_name = "fix_yaml_syntax"
          /\ tool_params = <<"calculator.py", ":", "x", ":", "add_colon">>
          /\ tool_outcome.value.error =
                <<"Error fixing YAML: ", "ValueError: invalid literal for int()">>
    /\ tool_outcome.value.status = "fail"
    /\ workspace_files \in Workspaces

\* a well-formed parameter of a line-targeted patcher that names a file of
\* the workspace and a line number outside 1..N, N the lines of the file
LineOutOfRange ==
    /\ tool_name \in LinePatchers
    /\ ~MalformedParams(tool_name, tool_params)
    /\ tool_params[1] \in DOMAIN workspace_files
    /\ IntLiterals[LinePart(tool_params)[1]] \notin
          1..Len(readlines(workspace_files[tool_params[1]]))

\* C30: a line-targeted patcher called with a line number outside 1..N
\* returns status fail and leaves the file as it was
C30_OutOfRangeFails ==
    [][LineOutOfRange
          => /\ tool_outcome'.value.status = "fail"
             /\ workspace_files' = workspace_files]_vars

(***************************************************************************)
(* The text the reasoning engine is given                                  *)
(***************************************************************************)
\* C29: every reason call is given the text of the most recent observe call
\* that returned an Observation (the initial check's before the first); a
\* turn that fails at reason or act calls no observe and leaves that text
\* as it is, so the next reason call is given the same text and never the
\* text of the failure
C29_ReasonInput ==
    [][/\ nReason' = nReason + 1 => reason_arg' = observed_text
       /\ (pc \in {"reason", "act"} /\ last' \in {"reason_fault", "act_fault"})
             => (nObserve' = 0 /\ observed_text' = observed_text)
       /\ observed_text' # observed_text
             => \/ pc = "initial_check"
                \/ pc = "observe" /\ last' = "observe_ok"]_vars

\* the first turn failed at reason or act, and the reason call of the second
\* turn has been given the text of the initial check again
C29_Witness ==
    /\ pc = "act"
    /\ turn = 2
    /\ nReason = 2
    /\ agentFaults = 1
    /\ reason_arg = "Initial CI status"
    /\ observation_data.observation = "Initial CI status"

====
